---- MODULE Spec2Model ----
(***************************************************************************)
(* BBQ: a file-backed job queue.  State machine of one Queue               *)
(* (lib/cjs/queue.js), the Dispatcher that routes its broadcasts           *)
(* (lib/cjs/index.js), the Worker scheduler (lib/cjs/worker.js) and the    *)
(* Job execution context (lib/esm/queue.mjs, class Job).                   *)
(***************************************************************************)
EXTENDS Integers, Sequences, FiniteSets, TLC

(***************************************************************************)
(* Bounds of the exploration.                                              *)
(***************************************************************************)
MaxMsgs == 2
MaxTime == 1
MaxLives == 1
MaxInsts == 5
MaxWorkers == 2
MaxJobs == 2
MaxBacklog == 3
MaxRouted == 1
MaxSynthetic == 3
MaxScheduleJobs == 1
MaxLoopMsgs == 5

(***************************************************************************)
(* Program constants.                                                      *)
(***************************************************************************)
DoneDelay == 1000
ReArmDelay == 1000
NullTime == -1
EmptyId == 0

QueueId == "queue-1"
TwinId == "queue-2"

VARIABLES
    now,          \* new Date().getTime()
    nextId,       \* number of ids minted so far by crypto.randomUUID()
    lives,        \* number of process restarts so far
    options,      \* Queue.#options
    qphase,       \* "new" (constructed), "setup" (setup() running), "ready"
    pipeline,     \* Queue.#pipeline
    fails,        \* Queue.#fails
    timers,       \* pending deletion timers; tracked = held in Queue.#timers
    metaTimer,    \* the pending timers of Queue.#updateMetadata
    writes,       \* addMessage calls suspended on fs.outputFile: the record,
                  \* the content to store and the argument of the call
    files,        \* payload files on disk: message id -> stored content
    metaFile,     \* metaq.json on disk
    listed,       \* metabbq.json on disk lists the queue
    setup,        \* progress of Queue.setup / reBroadCast(true), and the
                  \* messages it restored
    queues,       \* Dispatcher.#queues (ids registered)
    workers,      \* Dispatcher.#workers, each Worker with its #jobs
    insts,        \* the Job objects created so far: instance id -> state
    loops,        \* activations of Worker.#normalJobRun suspended on a try
    nextInst,     \* number of Job objects constructed so far
    rebroadcasts, \* pending rebroadcast timers (envelopes)
    sent,         \* envelopes handed to Dispatcher.listen in this process life
    lastAdd,      \* how the last addMessage call ended: accepted or the error
    atExit,       \* ids in pipeline or fails when the process last terminated
    twin,         \* progress of a second createQueue call with the same name
    created       \* how the last createWorker or createJob call ended

queueVars == <<options, qphase, pipeline, fails, timers, metaTimer, writes, setup>>
diskVars == <<files, metaFile, listed>>
workerVars == <<workers, insts, loops, nextInst, rebroadcasts>>
ghostVars == <<sent, lastAdd, atExit, created>>
vars ==
    <<now, nextId, lives, queueVars, diskVars, queues, workerVars, ghostVars,
      twin>>

(***************************************************************************)
(* Values a producer may hand to addMessage.  A value is tagged with its   *)
(* JavaScript typeof; s holds a string (or the key of a one-key object)    *)
(* and n a number (or the value under that key).                           *)
(***************************************************************************)
Undefined == [t |-> "undefined", s |-> "", n |-> 0]
StringValue(str) == [t |-> "string", s |-> str, n |-> 0]
NumberValue(num) == [t |-> "number", s |-> "", n |-> num]
ObjectValue(key, num) == [t |-> "object", s |-> key, n |-> num]

Numbers == {7, 84}
Objects == {ObjectValue("k", 1), ObjectValue("msg", 7)}
Inputs == {Undefined, StringValue("Hello, World!"), NumberValue(84),
           ObjectValue("k", 1)}

\* the values the producers of the restart and consumer explorations send
Payloads == {NumberValue(84)}

TypeOf(value) == value.t

JSONStringify(value) == "{\"" \o value.s \o "\":" \o ToString(value.n) \o "}"

JSONParse(text) ==
    IF \E o \in Objects : JSONStringify(o) = text
    THEN CHOOSE o \in Objects : JSONStringify(o) = text
    ELSE Undefined

ParseNumber(text) ==
    IF \E k \in Numbers : ToString(k) = text
    THEN NumberValue(CHOOSE k \in Numbers : ToString(k) = text)
    ELSE Undefined

\* Queue.#formatMessage: JSON for objects, String(message) otherwise
FormatMessage(value, type) ==
    CASE type = "object" -> JSONStringify(value)
      [] type = "number" -> ToString(value.n)
      [] OTHER -> value.s

\* Queue.#reformatMessage
ReformatMessage(text, type) ==
    CASE type = "object" -> JSONParse(text)
      [] type = "number" -> ParseNumber(text)
      [] OTHER -> StringValue(text)

ByteLength(text) == Len(text)

\* Queue.#encrypt / #decrypt: the cipher is an external collaborator; a
\* ciphertext can be opened only with the key it was made with.
Encrypt(text, secretKey) ==
    IF secretKey = "" THEN [cipher |-> FALSE, key |-> "", text |-> text]
    ELSE [cipher |-> TRUE, key |-> secretKey, text |-> text]

Decrypt(content, type, secretKey) ==
    IF secretKey = "" THEN ReformatMessage(content.text, type)
    ELSE IF content.cipher /\ content.key = secretKey
         THEN ReformatMessage(content.text, type)
         ELSE Undefined

(***************************************************************************)
(* Sequences of message records.                                           *)
(***************************************************************************)
Ids(seq) == {seq[i].id : i \in 1..Len(seq)}

HasId(seq, id) == \E i \in 1..Len(seq) : seq[i].id = id

\* Array.prototype.find(msg => msg.id == id), on a sequence that holds id
Find(seq, id) == seq[CHOOSE i \in 1..Len(seq) :
                       /\ seq[i].id = id
                       /\ \A j \in 1..(i - 1) : seq[j].id # id]

\* Array.prototype.filter(msg => msg.id != id)
Without(seq, id) == LET Keep(m) == m.id # id IN SelectSeq(seq, Keep)

InsertSorted(seq, m) ==
    LET k == Cardinality({i \in 1..Len(seq) : seq[i].createdAt <= m.createdAt})
    IN SubSeq(seq, 1, k) \o <<m>> \o SubSeq(seq, k + 1, Len(seq))

\* Array.prototype.sort((a, b) => a.createdAt - b.createdAt): a stable sort
RECURSIVE SortByCreatedAt(_)
SortByCreatedAt(seq) ==
    IF seq = <<>> THEN <<>>
    ELSE InsertSorted(SortByCreatedAt(SubSeq(seq, 1, Len(seq) - 1)), seq[Len(seq)])

\* the path of a payload file: msgs/<md5(id)>.knmbbq
PathOf(id) == <<"msgs", id>>

IdKey(id) == [kind |-> "id", n |-> id]
IndexKey(i) == [kind |-> "index", n |-> i]

\* the envelope handed to Dispatcher.listen: {...message, queueId, value}
Envelope(m, value) ==
    [id |-> m.id, size |-> m.size, path |-> m.path, createdAt |-> m.createdAt,
     failedAt |-> m.failedAt, failedCount |-> m.failedCount, type |-> m.type,
     queueId |-> QueueId, value |-> value]

(***************************************************************************)
(* Queue: timers and metadata.                                             *)
(***************************************************************************)
\* an #updateMetadata that leaves the timer it finds pending
UpdateMetadataStacks(pending) == pending + 1

\* Queue.#updateMetadata on the number of its timers that are pending:
\* clearTimeout of the one held in #updateMetaTimer, then a new one
UpdateMetadata(pending) ==
    (IF pending > 0 THEN pending - 1 ELSE pending) + 1

\* Queue.#deleteAfterTimeout, arming: a timer already held under the key is
\* cleared, the new one is held in #timers
DeleteAfterTimeout(ts, key, timeout) ==
    {t \in ts : ~(t.key = key /\ t.tracked)}
        \cup {[key |-> key, delay |-> timeout, tracked |-> TRUE]}

\* this.#timers.delete(key): the timer stays pending but is no longer held
TimersDelete(ts, key) ==
    {[t EXCEPT !.tracked = IF t.key = key THEN FALSE ELSE t.tracked] : t \in ts}

RemoveFile(fs, id) == [i \in (DOMAIN fs) \ {id} |-> fs[i]]

NoMetaFile ==
    [exists |-> FALSE, pipeline |-> <<>>, fails |-> <<>>, expire |-> 0,
     size |-> 0, limit |-> 0, secret |-> FALSE]

\* the record Queue.setup writes to metaq.json
MetadataRecord(p, f) ==
    [exists |-> TRUE, pipeline |-> p, fails |-> f, expire |-> options.expire,
     size |-> options.size, limit |-> options.limit,
     secret |-> (options.secretKey # "")]

\* the entry Dispatcher.setup and #updateMetadata write to metabbq.json for a
\* registered queue: options is queue.getOption(), the whole option record
QueueEntry(id) ==
    [path |-> <<"queues", "q">>, name |-> "q", options |-> options, id |-> id]

\* the content of metabbq.json
DispatcherMetadata ==
    [queues |-> (IF listed THEN <<QueueEntry(QueueId)>> ELSE <<>>)
                    \o (IF twin = "registered" THEN <<QueueEntry(TwinId)>> ELSE <<>>),
     secret |-> (options.secretKey # "")]

(***************************************************************************)
(* Worker and Job.  Dispatcher.listen runs Worker.run, #normalJobRun and   *)
(* Job.try synchronously inside the step that broadcasts, so they are      *)
(* functions of the worker-side state ws.                                  *)
(***************************************************************************)
WorkerSide ==
    [workers |-> workers, insts |-> insts, loops |-> loops,
     nextInst |-> nextInst, rebroadcasts |-> rebroadcasts]

\* this.#workers.find(w => w.name === name), this.#jobs.find(...)
WorkerAt(ws, name) ==
    CHOOSE i \in 1..Len(ws.workers) :
        /\ ws.workers[i].name = name
        /\ \A k \in 1..(i - 1) : ws.workers[k].name # name

JobAt(w, name) ==
    CHOOSE j \in 1..Len(w.jobs) :
        /\ w.jobs[j].name = name
        /\ \A k \in 1..(j - 1) : w.jobs[k].name # name

\* Worker.existObserverQueue
ExistObserverQueue(w, q) ==
    IF q \in DOMAIN w.observerQueue THEN w.observerQueue[q] ELSE FALSE

\* a downMessage that drops every waiting message of the Job
DownMessageOnClears(ws, wn, jn, msg) ==
    LET wi == WorkerAt(ws, wn)
        ji == JobAt(ws.workers[wi], jn)
    IN [ws EXCEPT !.workers[wi].jobs[ji].workingMessage = <<>>,
                  !.workers[wi].observerQueue = (msg.queueId :> TRUE) @@ @]

\* Worker.downMessage
DownMessageOn(ws, wn, jn, msg) ==
    LET wi == WorkerAt(ws, wn)
        ji == JobAt(ws.workers[wi], jn)
    IN [ws EXCEPT !.workers[wi].jobs[ji].workingMessage = Without(@, msg.id),
                  !.workers[wi].observerQueue = (msg.queueId :> TRUE) @@ @]

\* Worker.downInstance, type "job"
DownInstanceOn(ws, wn, jn, id) ==
    LET wi == WorkerAt(ws, wn)
        ji == JobAt(ws.workers[wi], jn)
        Keep(x) == x # id
    IN [ws EXCEPT !.workers[wi].jobs[ji].instances = SelectSeq(@, Keep)]

\* the job options the Job reads
JobOf(ws, inst) ==
    LET w == ws.workers[WorkerAt(ws, inst.worker)]
    IN w.jobs[JobAt(w, inst.job)]

\* new Job(name, worker, queue, callback, options): timer is the timeout of
\* #withTimeout; posts, listeners and alive describe #mainWorker (messages
\* posted and not answered, sets of handlers installed, not terminated);
\* retries counts the pending timers of #retry of a module-path callback
NewJob(wn, jn, msg) ==
    [worker |-> wn, job |-> jn, tried |-> 0, st |-> "new", msg |-> msg,
     timer |-> FALSE, posts |-> 0, listeners |-> 0, retries |-> 0,
     alive |-> TRUE]

\* Job.try: count the attempt, tell the Worker the message is taken, then
\* with a function callback call it under #withTimeout (its promise is then
\* pending), with a module path post the message to #mainWorker and install
\* one more set of handlers on it; with anything else throw
TryOn(ws, id, msg) ==
    LET inst == ws.insts[id]
        kind == JobOf(ws, inst).callback
        child == kind = "path"
        counted == [ws EXCEPT
                      !.insts[id].tried = @ + 1,
                      !.insts[id].msg = msg,
                      !.insts[id].st = CASE kind = "path" -> "posted"
                                         [] kind = "function" -> "running"
                                         [] OTHER -> "threw",
                      !.insts[id].timer = (kind = "function"),
                      !.insts[id].posts = IF child /\ inst.alive THEN @ + 1 ELSE @,
                      !.insts[id].listeners = IF child THEN @ + 1 ELSE @]
    IN DownMessageOn(counted, inst.worker, inst.job, msg)

\* may #normalJobRun start an instance now?
MayStart(job) ==
    \/ Len(job.instances) = 0
    \/ Len(job.instances) < job.concurrency

\* Worker.#normalJobRun from position idx of the array arr it iterates,
\* up to the first instance.try that stays pending (or the end of the
\* array); try with a module-path callback returns at once, and a try that
\* throws ends the loop
RECURSIVE NormalJobRun(_, _, _, _, _)
NormalJobRun(ws, wn, jn, arr, idx) ==
    IF idx > Len(arr) THEN ws
    ELSE LET wi == WorkerAt(ws, wn)
             ji == JobAt(ws.workers[wi], jn)
             job == ws.workers[wi].jobs[ji]
             id == ws.nextInst + 1
         IN IF MayStart(job)
            THEN LET made == [ws EXCEPT
                                !.nextInst = @ + 1,
                                !.insts = (id :> NewJob(wn, jn, arr[idx])) @@ @,
                                !.workers[wi].jobs[ji].instances = Append(@, id)]
                     tried == TryOn(made, id, arr[idx])
                 IN CASE job.callback = "path" ->
                            NormalJobRun(tried, wn, jn, arr, idx + 1)
                      [] job.callback = "invalid" -> tried
                      [] OTHER -> [tried EXCEPT !.loops = @ \cup
                            {[worker |-> wn, job |-> jn, arr |-> arr,
                              idx |-> idx, inst |-> id]}]
            ELSE NormalJobRun(ws, wn, jn, arr, idx + 1)

\* validJobs.reduce((readyJob, currentJob) =>
\*     readyJob.workingMessage.length < currentJob.workingMessage.length
\*         ? readyJob : currentJob)
RECURSIVE ChooseJob(_, _, _)
ChooseJob(jobs, valid, ready) ==
    IF valid = <<>> THEN ready
    ELSE LET current == Head(valid)
             pick == IF Len(jobs[ready].workingMessage)
                            < Len(jobs[current].workingMessage)
                     THEN ready ELSE current
         IN ChooseJob(jobs, Tail(valid), pick)

\* the indices of the jobs Worker.run may give the message to
ValidJobs(w, q) ==
    LET Valid(j) == /\ w.jobs[j].queueId = q
                    /\ Len(w.jobs[j].workingMessage) < w.jobs[j].workingMessageCount
    IN SelectSeq([j \in 1..Len(w.jobs) |-> j], Valid)

\* a run that asks for the rebroadcast and goes on observing the queue
RunOnKeepsObserving(ws, wn, env) ==
    LET wi == WorkerAt(ws, wn)
        w == ws.workers[wi]
        valid == ValidJobs(w, env.queueId)
    IN IF valid = <<>>
       THEN [ws EXCEPT !.rebroadcasts = @ \cup {env}]
       ELSE LET chosen == ChooseJob(w.jobs, Tail(valid), Head(valid))
                ji == JobAt(w, w.jobs[chosen].name)
                pushed == [ws EXCEPT !.workers[wi].jobs[ji].workingMessage =
                                          Append(@, env)]
            IN NormalJobRun(pushed, wn, w.jobs[ji].name,
                            pushed.workers[wi].jobs[ji].workingMessage, 1)

\* a run that puts the message in front of the waiting ones
RunOnUnshifts(ws, wn, env) ==
    LET wi == WorkerAt(ws, wn)
        w == ws.workers[wi]
        valid == ValidJobs(w, env.queueId)
    IN IF valid = <<>>
       THEN [ws EXCEPT !.workers[wi].observerQueue = (env.queueId :> FALSE) @@ @,
                       !.rebroadcasts = @ \cup {env}]
       ELSE LET chosen == ChooseJob(w.jobs, Tail(valid), Head(valid))
                ji == JobAt(w, w.jobs[chosen].name)
                pushed == [ws EXCEPT !.workers[wi].jobs[ji].workingMessage =
                                          <<env>> \o @]
            IN NormalJobRun(pushed, wn, w.jobs[ji].name,
                            pushed.workers[wi].jobs[ji].workingMessage, 1)

\* Worker.run
RunOn(ws, wn, env) ==
    LET wi == WorkerAt(ws, wn)
        w == ws.workers[wi]
        valid == ValidJobs(w, env.queueId)
    IN IF valid = <<>>
       THEN [ws EXCEPT !.workers[wi].observerQueue = (env.queueId :> FALSE) @@ @,
                       !.rebroadcasts = @ \cup {env}]
       ELSE LET chosen == ChooseJob(w.jobs, Tail(valid), Head(valid))
                ji == JobAt(w, w.jobs[chosen].name)
                pushed == [ws EXCEPT !.workers[wi].jobs[ji].workingMessage =
                                          Append(@, env)]
            IN NormalJobRun(pushed, wn, w.jobs[ji].name,
                            pushed.workers[wi].jobs[ji].workingMessage, 1)

\* a listen that goes on after a Worker that observes the queue and lets
\* the last one run
ListenOnLast(ws, env) ==
    LET observing == {i \in 1..Len(ws.workers) :
                        ExistObserverQueue(ws.workers[i], env.queueId)}
    IN IF observing = {}
       THEN [ws EXCEPT !.rebroadcasts = @ \cup {env}]
       ELSE LET last == CHOOSE i \in observing : \A k \in observing : i >= k
            IN RunOn(ws, ws.workers[last].name, env)

\* Dispatcher.listen, for a registered queue: the first Worker in #workers
\* that observes the queue runs; without one a rebroadcast is scheduled
ListenOn(ws, env) ==
    LET observing == {i \in 1..Len(ws.workers) :
                        ExistObserverQueue(ws.workers[i], env.queueId)}
    IN IF observing = {}
       THEN [ws EXCEPT !.rebroadcasts = @ \cup {env}]
       ELSE LET first == CHOOSE i \in observing : \A k \in observing : i <= k
            IN RunOn(ws, ws.workers[first].name, env)

SetWorkerSide(ws) ==
    /\ workers' = ws.workers
    /\ insts' = ws.insts
    /\ loops' = ws.loops
    /\ nextInst' = ws.nextInst
    /\ rebroadcasts' = ws.rebroadcasts

(***************************************************************************)
(* Queue.                                                                  *)
(***************************************************************************)
\* the checks of addMessage without the size check
AddMessageVerdictNoSize(value) ==
    IF 0 < options.limit /\ Len(pipeline) + 1 > options.limit
    THEN "QueueFull"
    ELSE IF TypeOf(value) = "undefined"
    THEN "MessageUndefined"
    ELSE "accepted"

\* the checks of Queue.addMessage, in the order the code makes them
AddMessageVerdict(value) ==
    IF 0 < options.limit /\ Len(pipeline) + 1 > options.limit
    THEN "QueueFull"
    ELSE IF TypeOf(value) = "undefined"
    THEN "MessageUndefined"
    ELSE IF ByteLength(FormatMessage(value, TypeOf(value))) > options.size
    THEN "MessageTooLarge"
    ELSE "accepted"

\* msgData of Queue.addMessage
MsgData(id, value) ==
    [id |-> id,
     size |-> ByteLength(FormatMessage(value, TypeOf(value))),
     path |-> PathOf(id),
     createdAt |-> now,
     failedAt |-> NullTime,
     failedCount |-> 0,
     type |-> TypeOf(value)]

\* a broadcast of the stored text as it is, without #reformatMessage
AddMessageEnvelopeRaw(w) ==
    Envelope(w.msg, StringValue(w.content.text))

\* what the .then of addMessage hands to broadcast
AddMessageEnvelope(w) ==
    Envelope(w.msg, Decrypt(w.content, w.msg.type, options.secretKey))

\* a push without the sort
PushPipelineUnsorted(p, m) == Append(p, m)

\* this.#pipeline.push(msgData); this.#pipeline.sort(...)
PushPipeline(p, m) == SortByCreatedAt(Append(p, m))

\* Queue.addMessage up to `await fs.outputFile`: a rejected call throws
\* before it touches anything
\* the exploration lets addMessage accept cap messages
Mintable(value, cap) == AddMessageVerdict(value) = "accepted" => nextId < cap

AddMessage(value) ==
    LET verdict == AddMessageVerdict(value)
        id == nextId + 1
        msg == MsgData(id, value)
        content == Encrypt(FormatMessage(value, TypeOf(value)), options.secretKey)
    IN /\ qphase = "ready"
       /\ lastAdd' = verdict
       /\ IF verdict = "accepted"
          THEN /\ nextId' = id
               /\ writes' = writes \cup
                      {[msg |-> msg, content |-> content, value |-> value]}
          ELSE UNCHANGED <<nextId, writes>>
       /\ UNCHANGED <<now, lives, options, qphase, pipeline, fails, timers,
                      metaTimer, setup, diskVars, queues, workerVars, sent,
                      atExit,
                      twin, created>>

\* the .then of addMessage: the file is written, the message joins the
\* pipeline and is broadcast; listen throws for an unregistered queue, and
\* then #updateMetadata is not reached
AddMessageWritten(w) ==
    LET env == AddMessageEnvelope(w)
        listened == ListenOn(WorkerSide, env)
    IN /\ w \in writes
       /\ writes' = writes \ {w}
       /\ files' = (w.msg.id :> w.content) @@ files
       /\ timers' = IF 0 < options.expire
                     THEN DeleteAfterTimeout(timers, IdKey(w.msg.id), options.expire)
                     ELSE timers
       /\ pipeline' = PushPipeline(pipeline, w.msg)
       /\ IF QueueId \in queues
          THEN /\ listened.nextInst <= MaxInsts
               /\ SetWorkerSide(listened)
               /\ sent' = Append(sent, [origin |-> "addMessage", env |-> env])
               /\ metaTimer' = UpdateMetadata(metaTimer)
          ELSE UNCHANGED <<workerVars, sent, metaTimer>>
       /\ UNCHANGED <<now, nextId, lives, options, qphase, fails, setup,
                      metaFile, listed, queues, lastAdd, atExit,
                      twin, created>>

\* a fail that forgets to take the message out of the pipeline
FailPipelineKeeps(p, id) == p

\* the pipeline Queue.fail leaves behind
FailPipeline(p, id) == Without(p, id)

\* a fail that stamps the record and leaves its count alone
FailRecordKeepsCount(m) == [m EXCEPT !.failedAt = now]

\* the record Queue.fail moves to #fails
FailRecord(m) == [m EXCEPT !.failedAt = now, !.failedCount = @ + 1]

\* Queue.fail as a function of the two lists
FailOn(p, f, id) ==
    IF HasId(f, id) THEN [pipeline |-> p, fails |-> f, moved |-> FALSE]
    ELSE IF HasId(p, id)
    THEN [pipeline |-> FailPipeline(p, id),
          fails |-> SortByCreatedAt(Append(f, FailRecord(Find(p, id)))),
          moved |-> TRUE]
    ELSE [pipeline |-> FailPipeline(p, id), fails |-> f, moved |-> FALSE]

\* what Queue.fail returns: the record in #fails, else the record it moved,
\* else the undefined that #pipeline.find gave
FailReturn(p, f, id) ==
    IF HasId(f, id) THEN Find(f, id)
    ELSE IF HasId(p, id) THEN FailRecord(Find(p, id))
    ELSE Undefined

\* Queue.fail called by a producer or consumer
Fail(id) ==
    LET r == FailOn(pipeline, fails, id)
    IN /\ qphase = "ready"
       /\ pipeline' = r.pipeline
       /\ fails' = r.fails
       /\ metaTimer' = IF r.moved THEN UpdateMetadata(metaTimer) ELSE metaTimer
       /\ UNCHANGED <<now, nextId, lives, options, qphase, timers, writes,
                      setup, diskVars, queues, workerVars, ghostVars,
                      twin>>

\* Queue.getFail: the record leaves #fails; its file is read, not removed
GetFail(id) ==
    /\ qphase = "ready"
    /\ HasId(fails, id)
    /\ fails' = Without(fails, id)
    /\ UNCHANGED <<now, nextId, lives, options, qphase, pipeline, timers,
                   metaTimer, writes, setup, diskVars, queues, workerVars,
                   ghostVars,
                   twin>>

\* a done that forgets the check of messageId
DoneOnAnyId(ts, id) == DeleteAfterTimeout(ts, IdKey(id), DoneDelay)

\* Queue.done as a function of #timers
DoneOn(ts, id) ==
    IF id = EmptyId THEN ts ELSE DeleteAfterTimeout(ts, IdKey(id), DoneDelay)

Done(id) ==
    /\ qphase = "ready"
    /\ timers' = DoneOn(timers, id)
    /\ UNCHANGED <<now, nextId, lives, options, qphase, pipeline, fails,
                   metaTimer, writes, setup, diskVars, queues, workerVars,
                   ghostVars,
                   twin>>

\* the callback of a timer armed by #deleteAfterTimeout
TimerFire(t) ==
    LET rest == timers \ {t}
        id == t.key.n
        inPipeline == t.key.kind = "id" /\ HasId(pipeline, id)
        inFails == t.key.kind = "id" /\ ~inPipeline /\ HasId(fails, id)
    IN /\ t \in timers
       /\ pipeline' = IF inPipeline THEN Without(pipeline, id) ELSE pipeline
       /\ fails' = IF inFails THEN Without(fails, id) ELSE fails
       /\ files' = IF inPipeline \/ inFails THEN RemoveFile(files, id) ELSE files
       /\ timers' = IF inFails
                     THEN TimersDelete(DeleteAfterTimeout(rest, t.key, ReArmDelay), t.key)
                     ELSE TimersDelete(rest, t.key)
       /\ metaTimer' = UpdateMetadata(metaTimer)
       /\ UNCHANGED <<now, nextId, lives, options, qphase, writes, setup,
                      metaFile, listed, queues, workerVars, ghostVars,
                      twin>>

\* the callback of the debounced #updateMetadata timer
UpdateMetadataFire ==
    /\ metaTimer > 0
    /\ metaTimer' = metaTimer - 1
    /\ metaFile' = IF metaFile.exists
                   THEN [metaFile EXCEPT !.pipeline = pipeline, !.fails = fails]
                   ELSE metaFile
    /\ UNCHANGED <<now, nextId, lives, options, qphase, pipeline, fails, timers,
                   writes, setup, files, listed, queues,
                   workerVars, ghostVars,
                   twin>>

\* expireT of Queue.setup, from the expire recorded in the metadata
ExpireT(md, m) ==
    LET diff == md.expire - (now - m.createdAt)
    IN IF diff > 0 THEN diff ELSE 1

\* for (const [key, value] of Object.entries(list)): key is the array index
RECURSIVE ArmRestored(_, _, _, _)
ArmRestored(ts, md, list, i) ==
    IF i > Len(list) THEN ts
    ELSE ArmRestored(DeleteAfterTimeout(ts, IndexKey(i - 1), ExpireT(md, list[i])),
                     md, list, i + 1)

SetupIdle ==
    [pc |-> "idle", arr |-> <<>>, idx |-> 1, via |-> "none", restored |-> <<>>]

\* Queue.setup up to the call of reBroadCast(true), on the Queue that
\* Dispatcher.createQueue constructs (registered after setup) or that
\* Dispatcher.#applyQueue constructs (registered before setup)
SetupBegin(via) ==
    LET restoreP == metaFile.exists /\ Len(metaFile.pipeline) > 0
        restoreF == metaFile.exists /\ Len(metaFile.fails) > 0
        p == IF restoreP THEN metaFile.pipeline ELSE pipeline
        f == IF restoreF THEN metaFile.fails ELSE fails
        armP == IF restoreP /\ metaFile.expire > 0
                THEN ArmRestored(timers, metaFile, metaFile.pipeline, 1)
                ELSE timers
        armF == IF restoreF /\ metaFile.expire > 0
                THEN ArmRestored(armP, metaFile, metaFile.fails, 1)
                ELSE armP
    IN /\ qphase = "new"
       /\ via = "applyQueue" => listed
       /\ qphase' = "setup"
       /\ pipeline' = p
       /\ fails' = f
       /\ timers' = armF
       /\ metaFile' = MetadataRecord(p, f)
       /\ queues' = IF via = "applyQueue" THEN queues \cup {QueueId} ELSE queues
       /\ setup' = [pc |-> "pipeline", arr |-> p, idx |-> 1, via |-> via,
                    restored |-> p \o f]
       /\ UNCHANGED <<now, nextId, lives, options, metaTimer, writes, files,
                      listed, workerVars, ghostVars,
                      twin>>

\* the phase of a Queue whose setup() rejected
AfterReject(via) == IF via = "applyQueue" THEN "ready" ELSE "dropped"

\* one turn of a loop of Queue.reBroadCast: read the payload, broadcast it.
\* A missing file makes readFile throw and an unregistered queue makes
\* Dispatcher.listen throw; either way setup() rejects and the rest of the
\* messages is not broadcast.
ReBroadCastStep ==
    LET m == setup.arr[setup.idx]
        env == Envelope(m, Decrypt(files[m.id], m.type, options.secretKey))
        listened == ListenOn(WorkerSide, env)
    IN /\ qphase = "setup"
       /\ setup.pc \in {"pipeline", "fails"}
       /\ setup.idx <= Len(setup.arr)
       /\ IF m.id \in DOMAIN files /\ QueueId \in queues
          THEN /\ listened.nextInst <= MaxInsts
               /\ SetWorkerSide(listened)
               /\ sent' = Append(sent, [origin |-> "setup", env |-> env])
               /\ setup' = [setup EXCEPT !.idx = @ + 1]
               /\ UNCHANGED qphase
          ELSE /\ setup' = [setup EXCEPT !.pc = "rejected"]
               /\ qphase' = AfterReject(setup.via)
               /\ UNCHANGED <<workerVars, sent>>
       /\ UNCHANGED <<now, nextId, lives, options, pipeline, fails, timers,
                      metaTimer, writes, diskVars, queues, lastAdd, atExit,
                      twin, created>>

\* reBroadCast(true) passes from the pipeline loop to the fails loop
ReBroadCastFails ==
    /\ qphase = "setup"
    /\ setup.pc = "pipeline"
    /\ setup.idx > Len(setup.arr)
    /\ setup' = [setup EXCEPT !.pc = "fails", !.arr = fails, !.idx = 1]
    /\ UNCHANGED <<now, nextId, lives, options, qphase, pipeline, fails, timers,
                   metaTimer, writes, diskVars, queues, workerVars, ghostVars,
                   twin>>

\* setup() resolves; createQueue then registers the queue and lists it in
\* the dispatcher metadata
SetupFinish ==
    /\ qphase = "setup"
    /\ setup.pc = "fails"
    /\ setup.idx > Len(setup.arr)
    /\ setup' = [setup EXCEPT !.pc = "done"]
    /\ qphase' = "ready"
    /\ queues' = queues \cup {QueueId}
    /\ listed' = (listed \/ setup.via = "createQueue")
    /\ UNCHANGED <<now, nextId, lives, options, pipeline, fails, timers,
                   metaTimer, writes, files, metaFile, workerVars, ghostVars,
                   twin>>

\* the rebroadcast timer of Dispatcher.listen / Worker.run
RebroadcastFire(env) ==
    LET listened == ListenOn([WorkerSide EXCEPT !.rebroadcasts = @ \ {env}], env)
    IN /\ env \in rebroadcasts
       /\ listened.nextInst <= MaxInsts
       /\ SetWorkerSide(listened)
       /\ UNCHANGED <<now, nextId, lives, queueVars, diskVars, queues, ghostVars,
                      twin>>

\* time passes
Tick ==
    /\ now < MaxTime
    /\ now' = now + 1
    /\ UNCHANGED <<nextId, lives, queueVars, diskVars, queues, workerVars,
                   ghostVars,
                   twin>>

\* the process ends and is started again: memory is lost, the disk stays.
\* A payload write that was pending may or may not have reached the disk.
Terminate ==
    /\ lives < MaxLives
    /\ lives' = lives + 1
    /\ qphase' = "new"
    /\ pipeline' = <<>>
    /\ fails' = <<>>
    /\ timers' = {}
    /\ metaTimer' = 0
    /\ writes' = {}
    /\ setup' = SetupIdle
    /\ queues' = {}
    /\ workers' = <<>>
    /\ insts' = <<>>
    /\ loops' = {}
    /\ nextInst' = 0
    /\ rebroadcasts' = {}
    /\ sent' = <<>>
    /\ atExit' = Ids(pipeline) \cup Ids(fails)
    /\ twin' = "none"
    /\ created' = "none"
    /\ \E landed \in SUBSET writes :
          files' = [i \in DOMAIN files \cup {w.msg.id : w \in landed} |->
                      IF i \in DOMAIN files THEN files[i]
                      ELSE (CHOOSE w \in landed : w.msg.id = i).content]
    /\ UNCHANGED <<now, nextId, options, metaFile, listed, lastAdd>>

(***************************************************************************)
(* The Queue on its own: producers, timers, restarts.  No Worker exists,   *)
(* so every broadcast ends in a rebroadcast timer of the Dispatcher.       *)
(***************************************************************************)
QueueOptions ==
    {[size |-> 5, expire |-> 0, limit |-> 1, secretKey |-> ""],
     [size |-> 13, expire |-> 60, limit |-> 0, secretKey |-> "secretKey"]}

\* the ids a caller can hold: those minted so far
MessageIds == 1..nextId

InitWith(optionSet) ==
    /\ now = 0
    /\ nextId = 0
    /\ lives = 0
    /\ options \in optionSet
    /\ qphase = "new"
    /\ pipeline = <<>>
    /\ fails = <<>>
    /\ timers = {}
    /\ metaTimer = 0
    /\ writes = {}
    /\ files = <<>>
    /\ metaFile = NoMetaFile
    /\ listed = FALSE
    /\ setup = SetupIdle
    /\ queues = {}
    /\ workers = <<>>
    /\ insts = <<>>
    /\ loops = {}
    /\ nextInst = 0
    /\ rebroadcasts = {}
    /\ sent = <<>>
    /\ lastAdd = "none"
    /\ twin = "none"
    /\ created = "none"
    /\ atExit = {}

Init == InitWith(QueueOptions)

Next ==
    \/ SetupBegin("createQueue")
    \/ ReBroadCastFails
    \/ SetupFinish
    \/ \E value \in Inputs : Mintable(value, MaxMsgs) /\ AddMessage(value)
    \/ \E w \in writes : AddMessageWritten(w)
    \/ \E id \in MessageIds : Fail(id)
    \/ \E id \in MessageIds : GetFail(id)
    \/ \E id \in MessageIds \cup {EmptyId} : Done(id)
    \/ \E t \in timers : TimerFire(t)
    \/ UpdateMetadataFire
    \/ \E env \in rebroadcasts : RebroadcastFire(env)
    \/ Tick

Spec == Init /\ [][Next]_vars

(***************************************************************************)
(* The Queue across a restart of the process.                              *)
(***************************************************************************)
RestartOptions ==
    {[size |-> 5, expire |-> 60, limit |-> 0, secretKey |-> "secretKey"]}

InitRestart == InitWith(RestartOptions)

NextRestart ==
    \/ \E via \in {"createQueue", "applyQueue"} : SetupBegin(via)
    \/ ReBroadCastStep
    \/ ReBroadCastFails
    \/ SetupFinish
    \/ \E value \in Payloads : Mintable(value, MaxMsgs) /\ AddMessage(value)
    \/ \E w \in writes : AddMessageWritten(w)
    \/ \E id \in MessageIds : Fail(id)
    \/ \E id \in MessageIds : GetFail(id)
    \/ \E id \in MessageIds \cup {EmptyId} : Done(id)
    \/ \E t \in timers : TimerFire(t)
    \/ UpdateMetadataFire
    \/ \E env \in rebroadcasts : RebroadcastFire(env)
    \/ Terminate

SpecRestart == InitRestart /\ [][NextRestart]_vars

(***************************************************************************)
(* The Queue across a restart of the process, with the clock running:      *)
(* messages differ in createdAt and fail later than they were created.     *)
(***************************************************************************)
NextAging ==
    \/ NextRestart
    \/ Tick

SpecAging == InitRestart /\ [][NextAging]_vars

(***************************************************************************)
(* Dispatcher.createWorker, Worker.createJob and the life of a Job.        *)
(***************************************************************************)
\* new Worker(name, workerOptions, dispatcher): the options are private
NewWorker(name, priority) ==
    [name |-> name, options |-> [priority |-> priority],
     observerQueue |-> <<>>, jobs |-> <<>>, scheduleJobs |-> <<>>]

\* `worker.priority` as the comparator of createWorker reads it: the class
\* Worker defines no such property
PriorityProperty(w) == Undefined

\* b.priority - a.priority; a subtraction with undefined gives NaN
Compare(a, b) ==
    LET x == PriorityProperty(b)
        y == PriorityProperty(a)
    IN IF TypeOf(x) = "number" /\ TypeOf(y) = "number"
       THEN [nan |-> FALSE, n |-> x.n - y.n]
       ELSE [nan |-> TRUE, n |-> 0]

\* Array.prototype.sort reads a NaN from the comparator as 0
SortKey(c) == IF c.nan THEN 0 ELSE c.n

\* this.#workers.sort(...): a stable sort of an array whose prefix the
\* previous calls have sorted
RECURSIVE SortWorkers(_)
SortWorkers(seq) ==
    IF seq = <<>> THEN <<>>
    ELSE LET front == SortWorkers(SubSeq(seq, 1, Len(seq) - 1))
             w == seq[Len(seq)]
             k == Cardinality({i \in 1..Len(front) : SortKey(Compare(front[i], w)) <= 0})
         IN SubSeq(front, 1, k) \o <<w>> \o SubSeq(front, k + 1, Len(front))

WorkerNames == {"w1", "w2"}
JobNames == {"j1", "j2"}

\* the options the exploration creates each Worker and each Job with
PriorityOf(name) == IF name = "w1" THEN 1 ELSE 2

JobOptions(name) ==
    IF name = "j1"
    THEN {[callback |-> "function", retry |-> 1, concurrency |-> 1,
           workingMessageCount |-> 1],
          [callback |-> "function", retry |-> 0, concurrency |-> 2,
           workingMessageCount |-> 2]}
    ELSE {[callback |-> "function", retry |-> 0, concurrency |-> 0,
           workingMessageCount |-> 2]}

\* this.#workers.findIndex(nWorker => nWorker.name === name) > -1
WorkerNamed(name) == \E i \in 1..Len(workers) : workers[i].name = name

\* Dispatcher.createWorker; a duplicate name throws before anything changes
CreateWorker(name, priority) ==
    /\ created' = IF WorkerNamed(name) THEN "NameDuplicate" ELSE "created"
    /\ IF WorkerNamed(name)
       THEN UNCHANGED workers
       ELSE /\ Len(workers) < MaxWorkers
            /\ workers' = SortWorkers(Append(workers, NewWorker(name, priority)))
    /\ UNCHANGED <<now, nextId, lives, queueVars, diskVars, queues, insts,
                   loops, nextInst, rebroadcasts, sent, lastAdd, atExit, twin>>

\* jobStructure of Worker.createJob
JobStructure(name, opts) ==
    [name |-> name, queueId |-> QueueId, callback |-> opts.callback,
     retry |-> opts.retry,
     concurrency |-> opts.concurrency,
     workingMessageCount |-> opts.workingMessageCount,
     instances |-> <<>>, workingMessage |-> <<>>]

\* this.#jobs.findIndex(nJob => nJob.name === name) > -1
JobNamed(wi, name) ==
    \E j \in 1..Len(workers[wi].jobs) : workers[wi].jobs[j].name = name

\* a createJob that pushes the job and sets the observer before it looks
\* for a duplicate
RegisterJobUnchecked(wi, name, opts) ==
    [workers EXCEPT ![wi].jobs = Append(@, JobStructure(name, opts)),
                    ![wi].observerQueue = (QueueId :> TRUE) @@ @]

\* #workers after Worker.createJob
RegisterJob(wi, name, opts) ==
    IF JobNamed(wi, name) THEN workers
    ELSE [workers EXCEPT
            ![wi].jobs = Append(@, JobStructure(name, opts)),
            ![wi].observerQueue =
                IF QueueId \in DOMAIN @ THEN @ ELSE (QueueId :> TRUE) @@ @]

\* Worker.createJob; a duplicate name throws before anything changes, and
\* so does Dispatcher.getQueue for a queue that is not registered
CreateJob(wi, name, opts) ==
    /\ wi \in 1..Len(workers)
    /\ JobNamed(wi, name) \/ (Len(workers[wi].jobs) < MaxJobs /\ QueueId \in queues)
    /\ created' = IF JobNamed(wi, name) THEN "NameDuplicate" ELSE "created"
    /\ workers' = RegisterJob(wi, name, opts)
    /\ UNCHANGED <<now, nextId, lives, queueVars, diskVars, queues, insts,
                   loops, nextInst, rebroadcasts, sent, lastAdd, atExit, twin>>

\* the Job is dropped: nothing refers to it any more
Forget(ws, id) ==
    [ws EXCEPT !.insts = [i \in (DOMAIN @) \ {id} |-> @[i]]]

\* `await instance.try(message)` returns: the loop of #normalJobRun that
\* waited for it goes on with the array it was iterating
Resume(ws, id) ==
    LET waiting == {l \in ws.loops : l.inst = id}
    IN IF waiting = {} THEN ws
       ELSE LET l == CHOOSE l \in waiting : TRUE
            IN NormalJobRun([ws EXCEPT !.loops = @ \ {l}],
                            l.worker, l.job, l.arr, l.idx + 1)

\* #handleWithWorkerMain, the callback resolved before the timeout fired or
\* after it threw: the timeout is cleared, then downInstance, queue.done
JobResolve(id) ==
    LET inst == insts[id]
        down == DownInstanceOn(WorkerSide, inst.worker, inst.job, id)
        after == Resume(Forget(down, id), id)
    IN /\ id \in DOMAIN insts
       /\ inst.st = "running"
       /\ after.nextInst <= MaxInsts
       /\ SetWorkerSide(after)
       /\ timers' = DoneOn(timers, inst.msg.id)
       /\ UNCHANGED <<now, nextId, lives, options, qphase, pipeline, fails,
                      metaTimer, writes, setup, diskVars, queues, ghostVars,
                      twin>>

\* msg = { ...msg, ...await this.queue.fail(msg.id) }
Merged(msg, p, f) ==
    LET id == msg.id
        r == IF HasId(f, id) THEN Find(f, id) ELSE FailRecord(Find(p, id))
    IN IF HasId(f, id) \/ HasId(p, id)
       THEN [msg EXCEPT !.failedAt = r.failedAt, !.failedCount = r.failedCount,
                        !.size = r.size, !.path = r.path,
                        !.createdAt = r.createdAt, !.type = r.type]
       ELSE msg

\* #handleWithWorkerMain, the callback rejected: the timeout is cleared,
\* queue.fail, then a retry timer while tried < retry + 1, else downInstance
JobReject(id) ==
    LET inst == insts[id]
        r == FailOn(pipeline, fails, inst.msg.id)
        again == inst.tried < JobOf(WorkerSide, inst).retry + 1
        kept == [WorkerSide EXCEPT
                    !.insts[id].st = "retryWait",
                    !.insts[id].timer = FALSE,
                    !.insts[id].msg = Merged(inst.msg, pipeline, fails)]
        down == Forget(DownInstanceOn(WorkerSide, inst.worker, inst.job, id), id)
        after == Resume(IF again THEN kept ELSE down, id)
    IN /\ id \in DOMAIN insts
       /\ inst.st = "running"
       /\ after.nextInst <= MaxInsts
       /\ SetWorkerSide(after)
       /\ pipeline' = r.pipeline
       /\ fails' = r.fails
       /\ metaTimer' = IF r.moved THEN UpdateMetadata(metaTimer) ELSE metaTimer
       /\ UNCHANGED <<now, nextId, lives, options, qphase, timers, writes,
                      setup, diskVars, queues, ghostVars,
                      twin>>

\* the timer of Job.#retry: try(msg, "retry")
RetryFire(id) ==
    LET inst == insts[id]
        child == JobOf(WorkerSide, inst).callback = "path"
        due == [WorkerSide EXCEPT
                  !.insts[id].retries = IF child THEN @ - 1 ELSE @]
    IN /\ id \in DOMAIN insts
       /\ IF child THEN inst.retries > 0 ELSE inst.st = "retryWait"
       /\ SetWorkerSide(TryOn(due, id, inst.msg))
       /\ UNCHANGED <<now, nextId, lives, queueVars, diskVars, queues,
                      ghostVars,
                      twin>>

\* #mainWorker emits 'message' for one posted message: every messageHandler
\* installed so far runs, each with the same #tried.  On success each calls
\* downInstance, queue.done and cleanup; on error each calls queue.fail and
\* then either #retry (one timer per handler) or downInstance and cleanup.
\* cleanup terminates #mainWorker, whose 'exit' removes the handlers left.
ChildReply(id, status) ==
    LET inst == insts[id]
        r == FailOn(pipeline, fails, inst.msg.id)
        again == inst.tried < JobOf(WorkerSide, inst).retry + 1
        cleaned == [WorkerSide EXCEPT !.insts[id].listeners = 0,
                                      !.insts[id].posts = 0,
                                      !.insts[id].alive = FALSE]
        down == DownInstanceOn(cleaned, inst.worker, inst.job, id)
        ended == IF inst.retries = 0 THEN Forget(down, id) ELSE down
        kept == [WorkerSide EXCEPT
                    !.insts[id].posts = @ - 1,
                    !.insts[id].retries = @ + inst.listeners,
                    !.insts[id].msg = Merged(inst.msg, pipeline, fails)]
    IN /\ id \in DOMAIN insts
       /\ inst.alive
       /\ inst.posts > 0
       /\ IF status = "success"
          THEN /\ SetWorkerSide(ended)
               /\ timers' = DoneOn(timers, inst.msg.id)
               /\ UNCHANGED <<pipeline, fails, metaTimer>>
          ELSE /\ SetWorkerSide(IF again THEN kept ELSE ended)
               /\ pipeline' = r.pipeline
               /\ fails' = r.fails
               /\ metaTimer' = IF r.moved THEN UpdateMetadata(metaTimer) ELSE metaTimer
               /\ UNCHANGED timers
       /\ UNCHANGED <<now, nextId, lives, options, qphase, writes, setup,
                      diskVars, queues, ghostVars,
                      twin>>

\* the isolated runtime of the instance ends while an attempt is posted.
\* On 'exit' every exitHandler runs cleanup, which removes the handlers; no
\* handler calls downInstance.  On 'error' errorHandler evaluates
\* errorFunc(...), which throws before cleanup: the process ends, or, where
\* the host handles uncaughtException, goes on to the 'exit' of the runtime.
ChildExit(id) ==
    /\ id \in DOMAIN insts
    /\ insts[id].alive
    /\ insts[id].posts > 0
    /\ \/ Terminate
       \/ /\ insts' = [insts EXCEPT ![id].listeners = 0, ![id].posts = 0,
                                    ![id].alive = FALSE]
          /\ UNCHANGED <<now, nextId, lives, queueVars, diskVars, queues,
                         workers, loops, nextInst, rebroadcasts, ghostVars,
                         twin>>

\* the timer of #withTimeout fires while the callback is pending: its
\* callback evaluates errorFunc(...), which throws before reject is called.
\* Nothing catches an exception thrown by a timer callback: the process ends,
\* or, where the host handles uncaughtException, goes on with the attempt
\* still pending.
TimeoutFire(id) ==
    /\ id \in DOMAIN insts
    /\ insts[id].st = "running"
    /\ insts[id].timer
    /\ \/ Terminate
       \/ /\ insts' = [insts EXCEPT ![id].timer = FALSE]
          /\ UNCHANGED <<now, nextId, lives, queueVars, diskVars, queues,
                         workers, loops, nextInst, rebroadcasts, ghostVars,
                         twin>>

(***************************************************************************)
(* Worker.createScheduleJob, the 60-second tick of #scheduleRun and the    *)
(* life of a ScheduleJob.                                                  *)
(***************************************************************************)
\* parseCronExpression: the five fields, each kept as the token it was
ParseCronExpression(minute, hour, dayOfMonth, month, dayOfWeek) ==
    [minute |-> minute, hour |-> hour, dayOfMonth |-> dayOfMonth,
     month |-> month, dayOfWeek |-> dayOfWeek]

\* convertToCronExpression, for the named patterns the exploration uses
ConvertToCronExpression(form) ==
    CASE form = "minutely" -> ParseCronExpression("*", "*", "*", "*", "*")
      [] form = "hourly" -> ParseCronExpression("0", "*", "*", "*", "*")
      [] OTHER -> ParseCronExpression("0", "0", "*", "*", "*")

\* the wall clock a tick may read, in the time zone of the job
Clocks ==
    {[minute |-> m, hour |-> 0, date |-> 1, month |-> 1, day |-> 0] : m \in {0, 1}}

\* isTimeToRun: a field matches when it is "*" or the decimal of the clock
IsTimeToRun(cron, clock) ==
    /\ cron.minute = "*" \/ cron.minute = ToString(clock.minute)
    /\ cron.hour = "*" \/ cron.hour = ToString(clock.hour)
    /\ cron.dayOfMonth = "*" \/ cron.dayOfMonth = ToString(clock.date)
    /\ cron.month = "*" \/ cron.month = ToString(clock.month)
    /\ \/ cron.dayOfWeek = "*"
       \/ cron.dayOfWeek = ToString(clock.day)
       \/ cron.dayOfWeek = "7" /\ clock.day = 0

\* { ...message }: the own enumerable properties of the value.  An object
\* gives an equal object, a string an object keyed by the indices of its
\* characters (n counts them), a number an empty object.
Spread(value) ==
    CASE value.t = "object" -> value
      [] value.t = "string" -> [t |-> "object", s |-> "indices", n |-> Len(value.s)]
      [] OTHER -> [t |-> "object", s |-> "", n |-> 0]

\* ScheduleJob.#formdata: what the callback receives
Formdata(id, name, wn, sampleData, messageId, tried) ==
    [id |-> id, name |-> name, workerName |-> wn, type |-> "scheduleJob",
     message |-> [id |-> messageId, value |-> Spread(sampleData)],
     tried |-> tried]

\* jobStructure of Worker.createScheduleJob
ScheduleStructure(name, form, sampleData, opts) ==
    [name |-> name, pattern |-> ConvertToCronExpression(form),
     sampleData |-> sampleData, callback |-> "function",
     retry |-> opts.retry, concurrency |-> opts.concurrency,
     instances |-> <<>>]

\* this.#scheduleJobs.findIndex(nJob => nJob.name === name) > -1
ScheduleJobNamed(wi, name) ==
    \E k \in 1..Len(workers[wi].scheduleJobs) :
        workers[wi].scheduleJobs[k].name = name

\* Worker.createScheduleJob; a duplicate name throws before anything
\* changes.  The interval timer it starts is the action ScheduleTick.
CreateScheduleJob(wi, name, form, sampleData, opts) ==
    /\ wi \in 1..Len(workers)
    /\ ScheduleJobNamed(wi, name) \/ Len(workers[wi].scheduleJobs) < MaxScheduleJobs
    /\ created' = IF ScheduleJobNamed(wi, name) THEN "NameDuplicate" ELSE "created"
    /\ workers' = IF ScheduleJobNamed(wi, name) THEN workers
                  ELSE [workers EXCEPT ![wi].scheduleJobs =
                           Append(@, ScheduleStructure(name, form, sampleData, opts))]
    /\ UNCHANGED <<now, nextId, lives, queueVars, diskVars, queues, insts,
                   loops, nextInst, rebroadcasts, sent, lastAdd, atExit, twin>>

\* may the tick start an instance now?
MayStartSchedule(job) ==
    \/ Len(job.instances) = 0
    \/ Len(job.instances) < job.concurrency

\* ScheduleJob.try: count the attempt and call the callback, under
\* #withTimeout, with a handle whose message has a new random id
ScheduleTry(job, wn, inst) ==
    [inst EXCEPT !.tried = @ + 1,
                 !.st = "running",
                 !.timer = TRUE,
                 !.handle = Formdata(inst.id, job.name, wn, job.sampleData,
                                     nextId + 1, inst.tried + 1)]

\* new ScheduleJob(...)
NewScheduleJob(id) ==
    [id |-> id, tried |-> 0, st |-> "new", timer |-> FALSE,
     handle |-> Formdata(id, "", "", Undefined, EmptyId, 0)]

\* one firing of the interval timer of #scheduleRun for schedule job k of
\* the Worker at wi, the wall clock reading clock
ScheduleTick(wi, k, clock) ==
    LET w == workers[wi]
        job == w.scheduleJobs[k]
        id == nextInst + 1
    IN /\ wi \in 1..Len(workers)
       /\ k \in 1..Len(w.scheduleJobs)
       /\ IF IsTimeToRun(job.pattern, clock) /\ MayStartSchedule(job)
          THEN /\ nextInst < MaxInsts
               /\ nextId < MaxSynthetic
               /\ nextInst' = id
               /\ nextId' = nextId + 1
               /\ workers' = [workers EXCEPT ![wi].scheduleJobs[k].instances =
                                 Append(@, ScheduleTry(job, w.name, NewScheduleJob(id)))]
          ELSE UNCHANGED <<nextInst, nextId, workers>>
       /\ UNCHANGED <<now, lives, queueVars, diskVars, queues, insts, loops,
                      rebroadcasts, ghostVars, twin>>

\* Worker.downInstance, type "scheduleJob"
DownScheduleInstance(wi, k, id) ==
    LET Keep(x) == x.id # id
    IN [workers EXCEPT ![wi].scheduleJobs[k].instances = SelectSeq(@, Keep)]

\* the instance at position n of schedule job k of the Worker at wi is in
\* state st
ScheduleInstanceIn(wi, k, n, st) ==
    /\ wi \in 1..Len(workers)
    /\ k \in 1..Len(workers[wi].scheduleJobs)
    /\ n \in 1..Len(workers[wi].scheduleJobs[k].instances)
    /\ workers[wi].scheduleJobs[k].instances[n].st = st

\* ScheduleJob.#handleWithWorkerMain, the callback resolved: downInstance
ScheduleResolve(wi, k, n) ==
    /\ ScheduleInstanceIn(wi, k, n, "running")
    /\ workers' = DownScheduleInstance(wi, k, workers[wi].scheduleJobs[k].instances[n].id)
    /\ UNCHANGED <<now, nextId, lives, queueVars, diskVars, queues, insts,
                   loops, nextInst, rebroadcasts, ghostVars, twin>>

\* ScheduleJob.#handleWithWorkerMain, the callback rejected: a retry timer
\* while tried < retry + 1, else downInstance
ScheduleReject(wi, k, n) ==
    LET job == workers[wi].scheduleJobs[k]
        inst == job.instances[n]
    IN /\ ScheduleInstanceIn(wi, k, n, "running")
       /\ workers' = IF inst.tried < job.retry + 1
                     THEN [workers EXCEPT
                             ![wi].scheduleJobs[k].instances[n].st = "retryWait",
                             ![wi].scheduleJobs[k].instances[n].timer = FALSE]
                     ELSE DownScheduleInstance(wi, k, inst.id)
       /\ UNCHANGED <<now, nextId, lives, queueVars, diskVars, queues, insts,
                      loops, nextInst, rebroadcasts, ghostVars, twin>>

\* the timer of ScheduleJob.#retry: try again
ScheduleRetryFire(wi, k, n) ==
    LET job == workers[wi].scheduleJobs[k]
    IN /\ ScheduleInstanceIn(wi, k, n, "retryWait")
       /\ nextId < MaxSynthetic
       /\ nextId' = nextId + 1
       /\ workers' = [workers EXCEPT ![wi].scheduleJobs[k].instances[n] =
                         ScheduleTry(job, workers[wi].name, @)]
       /\ UNCHANGED <<now, lives, queueVars, diskVars, queues, insts, loops,
                      nextInst, rebroadcasts, ghostVars, twin>>

\* the timer of ScheduleJob.#withTimeout fires while the callback is
\* pending: errorFunc throws inside the timer callback, as in Job
ScheduleTimeoutFire(wi, k, n) ==
    /\ ScheduleInstanceIn(wi, k, n, "running")
    /\ workers[wi].scheduleJobs[k].instances[n].timer
    /\ \/ Terminate
       \/ /\ workers' = [workers EXCEPT
                            ![wi].scheduleJobs[k].instances[n].timer = FALSE]
          /\ UNCHANGED <<now, nextId, lives, queueVars, diskVars, queues,
                         insts, loops, nextInst, rebroadcasts, ghostVars, twin>>

(***************************************************************************)
(* Dispatcher, Workers and Jobs consuming the Queue.                       *)
(***************************************************************************)
WorkersOptions ==
    {[size |-> 5, expire |-> 0, limit |-> 0, secretKey |-> ""]}

InitWorkers == InitWith(WorkersOptions)

NextWorkers ==
    \/ SetupBegin("createQueue")
    \/ ReBroadCastFails
    \/ SetupFinish
    \/ \E name \in WorkerNames :
          ~WorkerNamed(name) /\ CreateWorker(name, PriorityOf(name))
    \/ \E wi \in 1..Len(workers), name \in JobNames :
          \E opts \in JobOptions(name) :
              ~JobNamed(wi, name) /\ CreateJob(wi, name, opts)
    \/ \E value \in Payloads : Mintable(value, MaxMsgs) /\ AddMessage(value)
    \/ \E w \in writes : AddMessageWritten(w)
    \/ \E id \in DOMAIN insts : JobResolve(id)
    \/ \E id \in DOMAIN insts : JobReject(id)
    \/ \E id \in DOMAIN insts : RetryFire(id)
    \/ \E t \in timers : TimerFire(t)
    \/ UpdateMetadataFire
    \/ \E env \in rebroadcasts : RebroadcastFire(env)

SpecWorkers == InitWorkers /\ [][NextWorkers]_vars

(***************************************************************************)
(* One Worker and its schedule jobs: ticks, attempts and retries.          *)
(***************************************************************************)
ScheduleNames == {"s1"}
ScheduleForms == {"minutely", "hourly"}
SampleData == {ObjectValue("k", 1), StringValue("Hello, World!")}
ScheduleOptions ==
    {[retry |-> 0, concurrency |-> 0],
     [retry |-> 1, concurrency |-> 1],
     [retry |-> 0, concurrency |-> 2]}

InitSchedule == InitWith(WorkersOptions)

NextSchedule ==
    \/ ~WorkerNamed("w1") /\ CreateWorker("w1", PriorityOf("w1"))
    \/ \E wi \in 1..Len(workers), name \in ScheduleNames, form \in ScheduleForms :
          \E sampleData \in SampleData, opts \in ScheduleOptions :
              CreateScheduleJob(wi, name, form, sampleData, opts)
    \/ \E wi \in 1..Len(workers), k \in 1..MaxScheduleJobs, clock \in Clocks :
          ScheduleTick(wi, k, clock)
    \/ \E wi \in 1..Len(workers), k \in 1..MaxScheduleJobs, n \in 1..MaxInsts :
          ScheduleResolve(wi, k, n)
    \/ \E wi \in 1..Len(workers), k \in 1..MaxScheduleJobs, n \in 1..MaxInsts :
          ScheduleReject(wi, k, n)
    \/ \E wi \in 1..Len(workers), k \in 1..MaxScheduleJobs, n \in 1..MaxInsts :
          ScheduleRetryFire(wi, k, n)
    \/ \E wi \in 1..Len(workers), k \in 1..MaxScheduleJobs, n \in 1..MaxInsts :
          ScheduleTimeoutFire(wi, k, n)

SpecSchedule == InitSchedule /\ [][NextSchedule]_vars

(***************************************************************************)
(* One Worker with one Job, its callback a function or a module path,      *)
(* with retries and the timeout of the callback.                           *)
(***************************************************************************)
JobKinds ==
    {[callback |-> "function", retry |-> 1, concurrency |-> 1,
      workingMessageCount |-> 1],
     [callback |-> "path", retry |-> 2, concurrency |-> 1,
      workingMessageCount |-> 1]}

InitJobs == InitWith(WorkersOptions)

NextJobs ==
    \/ SetupBegin("createQueue")
    \/ ReBroadCastStep
    \/ ReBroadCastFails
    \/ SetupFinish
    \/ ~WorkerNamed("w1") /\ CreateWorker("w1", PriorityOf("w1"))
    \/ \E opts \in JobKinds :
          Len(workers) > 0 /\ ~JobNamed(1, "j1") /\ CreateJob(1, "j1", opts)
    \/ \E value \in Payloads : Mintable(value, MaxMsgs) /\ AddMessage(value)
    \/ \E w \in writes : AddMessageWritten(w)
    \/ \E id \in DOMAIN insts : JobResolve(id)
    \/ \E id \in DOMAIN insts : JobReject(id)
    \/ \E id \in DOMAIN insts : RetryFire(id)
    \/ \E id \in DOMAIN insts, status \in {"success", "error"} :
          ChildReply(id, status)
    \/ \E id \in DOMAIN insts : TimeoutFire(id)
    \/ \E t \in timers : TimerFire(t)
    \/ UpdateMetadataFire
    \/ \E env \in rebroadcasts : RebroadcastFire(env)

SpecJobs == InitJobs /\ [][NextJobs]_vars

(***************************************************************************)
(* The Dispatcher taking calls again: createQueue with the name of the     *)
(* queue, createWorker and createJob with names in use or not.  The second *)
(* createQueue call constructs, where the name is not registered yet, a    *)
(* second Queue on the same directory; of that Queue the model keeps the   *)
(* progress of the call and what it writes to the shared files.            *)
(***************************************************************************)
\* Dispatcher.createQueue, called with the name of the queue after the first
\* call: it returns the Queue registered under the name, or, while none is
\* registered, constructs a Queue, whose setup() restores the lists of
\* metaq.json and writes it back
CreateQueueAgain ==
    LET restores == /\ metaFile.exists
                    /\ Len(metaFile.pipeline) + Len(metaFile.fails) > 0
        p == IF metaFile.exists /\ Len(metaFile.pipeline) > 0
             THEN metaFile.pipeline ELSE <<>>
        f == IF metaFile.exists /\ Len(metaFile.fails) > 0
             THEN metaFile.fails ELSE <<>>
    IN /\ qphase # "new"
       /\ twin = "none"
       /\ IF QueueId \in queues
          THEN /\ twin' = "returned"
               /\ UNCHANGED metaFile
          ELSE /\ twin' = IF restores THEN "rebroadcast" ELSE "setup"
               /\ metaFile' = MetadataRecord(p, f)
       /\ UNCHANGED <<now, nextId, lives, queueVars, files, listed, queues,
                      workerVars, ghostVars>>

\* setup() of the second Queue settles: reBroadCast(true) throws at the first
\* restored message, the Queue not being registered; with nothing restored
\* setup() resolves, createQueue registers the Queue under its own id and
\* #updateMetadata lists it
CreateQueueAgainFinish ==
    /\ twin \in {"setup", "rebroadcast"}
    /\ IF twin = "setup"
       THEN /\ twin' = "registered"
            /\ queues' = queues \cup {TwinId}
       ELSE /\ twin' = "rejected"
            /\ UNCHANGED queues
    /\ UNCHANGED <<now, nextId, lives, queueVars, diskVars, workerVars,
                   ghostVars>>

\* a callback that was called settles
Settle == \E id \in DOMAIN insts : JobResolve(id) \/ JobReject(id)

\* the options the exploration creates the Jobs with: j1 takes no message
NamedJobs(name) ==
    [callback |-> "function", retry |-> 0, concurrency |-> 1,
     workingMessageCount |-> IF name = "j1" THEN 0 ELSE 1]

InitDispatcher == InitWith(WorkersOptions)

NextDispatcher ==
    \/ SetupBegin("createQueue")
    \/ ReBroadCastFails
    \/ SetupFinish
    \/ CreateQueueAgain
    \/ CreateQueueAgainFinish
    \/ \E name \in WorkerNames : CreateWorker(name, PriorityOf(name))
    \/ \E wi \in 1..Len(workers), name \in JobNames :
          CreateJob(wi, name, NamedJobs(name))
    \/ \E value \in Payloads : Mintable(value, MaxRouted) /\ AddMessage(value)
    \/ \E w \in writes : AddMessageWritten(w)
    \/ Settle
    \/ \E t \in timers : TimerFire(t)
    \/ UpdateMetadataFire
    \/ \E env \in rebroadcasts : RebroadcastFire(env)

SpecDispatcher == InitDispatcher /\ [][NextDispatcher]_vars

(***************************************************************************)
(* Back-pressure: one Worker, one Job that takes one message at a time,    *)
(* and more messages than it takes.  Pending writes land, a callback that  *)
(* was called settles and rebroadcast timers fire; producers owe nothing.  *)
(***************************************************************************)
PressureJob ==
    [callback |-> "function", retry |-> 0, concurrency |-> 1,
     workingMessageCount |-> 1]

InitPressure == InitWith(WorkersOptions)

NextPressure ==
    \/ SetupBegin("createQueue")
    \/ ReBroadCastFails
    \/ SetupFinish
    \/ ~WorkerNamed("w1") /\ CreateWorker("w1", PriorityOf("w1"))
    \/ Len(workers) > 0 /\ ~JobNamed(1, "j1") /\ CreateJob(1, "j1", PressureJob)
    \/ \E value \in Payloads : Mintable(value, MaxBacklog) /\ AddMessage(value)
    \/ \E w \in writes : AddMessageWritten(w)
    \/ Settle
    \/ \E t \in timers : TimerFire(t)
    \/ UpdateMetadataFire
    \/ \E env \in rebroadcasts : RebroadcastFire(env)

\* Dispatcher.listen finds a Worker that observes the queue: a rebroadcast
\* that fires then reaches Worker.run, which changes the Worker
Observed ==
    \E i \in 1..Len(workers) : ExistObserverQueue(workers[i], QueueId)

\* weak fairness of the pending writes and of the rebroadcast timers, with
\* ENABLED written out: a write that is pending lands, and a rebroadcast
\* timer that would reach a Worker fires
WritesLand ==
    \/ []<>(writes = {})
    \/ []<><<\E w \in writes : AddMessageWritten(w)>>_vars

RebroadcastsFire ==
    \/ []<>~(rebroadcasts # {} /\ Observed)
    \/ []<><<\E env \in rebroadcasts : RebroadcastFire(env)>>_vars

SpecPressure ==
    /\ InitPressure
    /\ [][NextPressure]_vars
    /\ WF_vars(Settle)
    /\ WritesLand
    /\ RebroadcastsFire

(***************************************************************************)
(* Retries under back-pressure: one Worker, one Job that takes one message *)
(* at a time and retries a failed attempt once, and more messages than it  *)
(* takes, so that a retry can find the Worker paused.                      *)
(***************************************************************************)
RetryJob ==
    [callback |-> "function", retry |-> 1, concurrency |-> 1,
     workingMessageCount |-> 1]

InitRetry == InitWith(WorkersOptions)

NextRetry ==
    \/ SetupBegin("createQueue")
    \/ ReBroadCastFails
    \/ SetupFinish
    \/ ~WorkerNamed("w1") /\ CreateWorker("w1", PriorityOf("w1"))
    \/ Len(workers) > 0 /\ ~JobNamed(1, "j1") /\ CreateJob(1, "j1", RetryJob)
    \/ \E value \in Payloads : Mintable(value, MaxBacklog) /\ AddMessage(value)
    \/ \E w \in writes : AddMessageWritten(w)
    \/ \E id \in DOMAIN insts : JobResolve(id)
    \/ \E id \in DOMAIN insts : JobReject(id)
    \/ \E id \in DOMAIN insts : RetryFire(id)
    \/ \E t \in timers : TimerFire(t)
    \/ UpdateMetadataFire
    \/ \E env \in rebroadcasts : RebroadcastFire(env)

SpecRetry == InitRetry /\ [][NextRetry]_vars

(***************************************************************************)
(* The ways the handling of a message ends: one Worker, one Job whose      *)
(* callback is a function, a module path or neither.  Pending writes land, *)
(* a function callback settles, the runtime of a posted attempt answers or *)
(* ends, and retry and rebroadcast timers fire.                            *)
(***************************************************************************)
EndingKinds ==
    {[callback |-> "function", retry |-> 0, concurrency |-> 1,
      workingMessageCount |-> 1],
     [callback |-> "path", retry |-> 1, concurrency |-> 1,
      workingMessageCount |-> 1],
     [callback |-> "invalid", retry |-> 0, concurrency |-> 1,
      workingMessageCount |-> 1]}

InitEnding == InitWith(WorkersOptions)

NextEnding ==
    \/ SetupBegin("createQueue")
    \/ ReBroadCastFails
    \/ SetupFinish
    \/ ~WorkerNamed("w1") /\ CreateWorker("w1", PriorityOf("w1"))
    \/ \E opts \in EndingKinds :
          Len(workers) > 0 /\ ~JobNamed(1, "j1") /\ CreateJob(1, "j1", opts)
    \/ \E value \in Payloads : Mintable(value, MaxMsgs) /\ AddMessage(value)
    \/ \E w \in writes : AddMessageWritten(w)
    \/ Settle
    \/ \E id \in DOMAIN insts : RetryFire(id)
    \/ \E id \in DOMAIN insts, status \in {"success", "error"} :
          ChildReply(id, status)
    \/ \E id \in DOMAIN insts : ChildExit(id)
    \/ \E id \in DOMAIN insts : TimeoutFire(id)
    \/ \E t \in timers : TimerFire(t)
    \/ UpdateMetadataFire
    \/ \E env \in rebroadcasts : RebroadcastFire(env)

\* weak fairness of the isolated runtime and of the retry timers, with
\* ENABLED written out: a posted attempt is answered or its runtime ends,
\* and a retry timer that is pending fires
RuntimeAnswers ==
    \/ []<>~(\E id \in DOMAIN insts : insts[id].alive /\ insts[id].posts > 0)
    \/ []<><<\E id \in DOMAIN insts :
                \/ ChildReply(id, "success")
                \/ ChildReply(id, "error")
                \/ ChildExit(id)>>_vars

RetriesFire ==
    \/ []<>~(\E id \in DOMAIN insts :
                insts[id].retries > 0 \/ insts[id].st = "retryWait")
    \/ []<><<\E id \in DOMAIN insts : RetryFire(id)>>_vars

SpecEnding ==
    /\ InitEnding
    /\ [][NextEnding]_vars
    /\ WF_vars(Settle)
    /\ WritesLand
    /\ RebroadcastsFire
    /\ RuntimeAnswers
    /\ RetriesFire

(***************************************************************************)
(* Overlapping loops of #normalJobRun: one Worker, one Job that runs two   *)
(* instances at a time and holds two waiting messages, and a producer that *)
(* adds one message after the other.  The deletion timers and the snapshot *)
(* writer of the Queue, which leave the Worker alone, stay pending.        *)
(***************************************************************************)
LoopJob ==
    [callback |-> "function", retry |-> 0, concurrency |-> 2,
     workingMessageCount |-> 2]

InitLoops == InitWith(WorkersOptions)

NextLoops ==
    \/ SetupBegin("createQueue")
    \/ ReBroadCastFails
    \/ SetupFinish
    \/ ~WorkerNamed("w1") /\ CreateWorker("w1", PriorityOf("w1"))
    \/ Len(workers) > 0 /\ ~JobNamed(1, "j1") /\ CreateJob(1, "j1", LoopJob)
    \/ \E value \in Payloads :
          writes = {} /\ Mintable(value, MaxLoopMsgs) /\ AddMessage(value)
    \/ \E w \in writes : AddMessageWritten(w)
    \/ Settle
    \/ \E env \in rebroadcasts : RebroadcastFire(env)

SpecLoops == InitLoops /\ [][NextLoops]_vars

(***************************************************************************)
(* Properties.                                                             *)
(***************************************************************************)
InMemory == Ids(pipeline) \cup Ids(fails)

\* C1: no message id is in both pipeline and fails, whatever sequence of
\* AddMessage, Fail, GetFail, Done, timer firings, restarts and Setup ran.
NoIdInBoth == Ids(pipeline) \cap Ids(fails) = {}

\* Fail has moved a message to fails while another one is in the pipeline
FailedBesidePending ==
    /\ Len(pipeline) > 0
    /\ \E i \in 1..Len(fails) : fails[i].failedCount = 1

\* C2: every Job descriptor holds at most workingMessageCount waiting
\* messages and at most concurrency instances.
JobCaps ==
    \A i \in 1..Len(workers) : \A j \in 1..Len(workers[i].jobs) :
        LET job == workers[i].jobs[j]
        IN /\ Len(job.workingMessage) <= job.workingMessageCount
           /\ Len(job.instances) <= job.concurrency

\* C3: Dispatcher.workers is in descending order of options.priority.
WorkersByPriority ==
    \A i \in 1..Len(workers) : \A j \in 1..Len(workers) :
        i < j => workers[i].options.priority >= workers[j].options.priority

\* C4: when Setup ends after a restart, every message that was in pipeline
\* or fails when the process terminated is in pipeline or fails again.
NothingLostOverRestart ==
    [][(qphase = "setup" /\ qphase' # "setup") => atExit \subseteq InMemory']_vars

\* the ids Setup has broadcast, in the order of the broadcasts
SetupSent ==
    LET FromSetup(e) == e.origin = "setup"
        es == SelectSeq(sent, FromSetup)
    IN [i \in 1..Len(es) |-> es[i].env.id]

\* C5: once Setup is over, the restored messages have been broadcast once
\* each, pipeline first and then fails, in the order of the collections,
\* none skipped.
RestoredAllBroadcastOnce ==
    setup.pc \in {"done", "rejected"} =>
        SetupSent = [i \in 1..Len(setup.restored) |-> setup.restored[i].id]

\* C6: every message in pipeline or fails has its payload file on disk.
EveryMessageHasFile == InMemory \subseteq DOMAIN files

\* C7: once Setup is over, every payload file on disk belongs to a message
\* in pipeline or fails.
NoOrphanFiles == qphase = "ready" => DOMAIN files \subseteq InMemory

\* the cases in which addMessage must refuse the value
Rejectable(value) ==
    \/ value = Undefined
    \/ options.limit > 0 /\ Len(pipeline) >= options.limit
    \/ Len(FormatMessage(value, TypeOf(value))) > options.size

AddErrors == {"QueueFull", "MessageUndefined", "MessageTooLarge"}

\* C8: an addMessage of an undefined value, on a full pipeline or of a value
\* whose serialized size exceeds options.size ends in an error and changes
\* nothing: no record, no payload file, no timer, no pending write, no
\* broadcast, no metadata write.
RejectedAddChangesNothing ==
    [][\A value \in Inputs :
          (AddMessage(value) /\ Rejectable(value)) =>
              /\ lastAdd' \in AddErrors
              /\ UNCHANGED <<pipeline, fails, timers, metaTimer, writes, files,
                             metaFile, sent, rebroadcasts, nextId>>]_vars

\* an addMessage was refused on a full pipeline
RefusedOnFullPipeline ==
    /\ lastAdd = "QueueFull"
    /\ Len(pipeline) >= options.limit

\* C9: with a limit configured the pipeline never holds more than limit
\* messages.
PipelineWithinLimit == options.limit > 0 => Len(pipeline) <= options.limit

\* C10: the completion of an accepted addMessage adds exactly one record to
\* the pipeline, with an id no message had, failedCount 0, no failedAt and a
\* path, leaves the other records alone, and hands exactly one envelope to
\* the Dispatcher, carrying the queue id and the value the caller passed.
AddAppendsAndBroadcastsOnce ==
    [][\A w \in writes :
          AddMessageWritten(w) =>
              LET id == w.msg.id
                  m == Find(pipeline', id)
                  e == sent'[Len(sent')]
              IN /\ id \notin InMemory
                 /\ Len(pipeline') = Len(pipeline) + 1
                 /\ Without(pipeline', id) = pipeline
                 /\ m.failedCount = 0
                 /\ m.failedAt = NullTime
                 /\ m.path # <<>>
                 /\ Len(sent') = Len(sent) + 1
                 /\ e.origin = "addMessage"
                 /\ e.env.id = id
                 /\ e.env.queueId = QueueId
                 /\ e.env.value = w.value]_vars

\* an object was added under encryption and broadcast
ObjectAddedAndBroadcast ==
    /\ options.secretKey # ""
    /\ \E i \in 1..Len(sent) :
          /\ sent[i].origin = "addMessage"
          /\ sent[i].env.type = "object"
          /\ HasId(pipeline, sent[i].env.id)


ExpiryArmed ==
    /\ (options.expire > 0 /\ qphase = "ready") =>
            \A id \in InMemory : \E t \in timers : t.key = IdKey(id)
    /\ options.expire = 0 =>
            \A t \in timers : t.delay \in {DoneDelay, ReArmDelay}


\* C18: the secret key is never written to persisted metadata: metaq.json and
\* metabbq.json carry the boolean secret and no field holding the key.
SecretKeyNotPersisted ==
    /\ metaFile.secret \in BOOLEAN
    /\ DispatcherMetadata.secret \in BOOLEAN
    /\ \A i \in DOMAIN DispatcherMetadata.queues :
          "secretKey" \in DOMAIN DispatcherMetadata.queues[i].options =>
              DispatcherMetadata.queues[i].options.secretKey = ""


\* C11: a Job instance attempts its callback at most retry + 1 times, with a
\* function callback and with a module-path callback alike: the count of
\* attempts, which every try raises by one, never passes retry + 1.
TriedWithinBudget ==
    \A id \in DOMAIN insts :
        insts[id].tried <= JobOf(WorkerSide, insts[id]).retry + 1


\* the instances the job of a Job instance lists after the step
InstancesAfter(inst) ==
    LET wi == WorkerAt(WorkerSide, inst.worker)
        ji == JobAt(workers[wi], inst.job)
    IN {workers'[wi].jobs[ji].instances[k] :
            k \in 1..Len(workers'[wi].jobs[ji].instances)}

\* C12: when the callback fails, the message is in fails with failedCount 1
\* and out of the pipeline; while fewer than retry + 1 attempts were made
\* exactly one retry is scheduled and the instance is kept, and the failure
\* of attempt retry + 1 is the last: the instance is removed and no further
\* attempt is pending.
FailsUntilBudgetSpent ==
    [][\A id \in DOMAIN insts :
          (JobReject(id) \/ ChildReply(id, "error")) =>
              LET inst == insts[id]
                  budget == JobOf(WorkerSide, inst).retry + 1
                  mid == inst.msg.id
              IN /\ (HasId(pipeline, mid) \/ HasId(fails, mid)) =>
                        /\ HasId(fails', mid)
                        /\ Find(fails', mid).failedCount = 1
                        /\ ~HasId(pipeline', mid)
                 /\ IF inst.tried < budget
                    THEN /\ id \in InstancesAfter(inst)
                         /\ id \in DOMAIN insts'
                         /\ \/ insts'[id].st = "retryWait" /\ insts'[id].retries = 0
                            \/ insts'[id].st = "posted" /\ insts'[id].retries = 1
                    ELSE /\ inst.tried = budget
                         /\ id \notin InstancesAfter(inst)
                         /\ id \notin DOMAIN insts']_vars

\* C13: when an attempt succeeds the Job calls Worker.downInstance and then
\* Queue.done, each exactly once: one handler runs, the instance leaves its
\* job, one deletion timer of one second is held under the message id, the
\* lists are untouched; when that timer fires the message leaves the
\* pipeline and its file is removed.
SuccessNotifiesOnce ==
    [][/\ \A id \in DOMAIN insts :
              (JobResolve(id) \/ ChildReply(id, "success")) =>
                  LET inst == insts[id]
                  IN /\ inst.st = "posted" => inst.listeners = 1
                     /\ id \notin InstancesAfter(inst)
                     /\ Cardinality({t \in timers' : /\ t.key = IdKey(inst.msg.id)
                                                      /\ t.tracked
                                                      /\ t.delay = DoneDelay}) = 1
                     /\ UNCHANGED <<pipeline, fails, files>>
       /\ \A t \in timers :
              (t.delay = DoneDelay /\ t.tracked /\ TimerFire(t)
                  /\ HasId(pipeline, t.key.n)) =>
                      /\ ~HasId(pipeline', t.key.n)
                      /\ t.key.n \notin DOMAIN files']_vars


\* C17: when the timeout of an attempt fires before the callback settles,
\* the attempt fails: the message is moved to fails and either a retry is
\* scheduled or, the budget spent, the instance is removed; when the
\* callback settles first the timer is cleared and cannot fire.
TimeoutFailsAttempt ==
    [][\A id \in DOMAIN insts :
          LET inst == insts[id]
              budget == JobOf(WorkerSide, inst).retry + 1
          IN /\ TimeoutFire(id) =>
                    /\ HasId(fails', inst.msg.id)
                    /\ ~HasId(pipeline', inst.msg.id)
                    /\ IF inst.tried < budget
                       THEN id \in DOMAIN insts' /\ insts'[id].st = "retryWait"
                       ELSE id \notin InstancesAfter(inst)
             /\ (JobResolve(id) \/ JobReject(id)) =>
                    (id \in DOMAIN insts' => ~insts'[id].timer)]_vars


\* a Worker has paused its observation of the queue and the message waits
\* for its rebroadcast
Refused(id) ==
    /\ \E env \in rebroadcasts : env.id = id
    /\ \E i \in 1..Len(workers) :
          /\ QueueId \in DOMAIN workers[i].observerQueue
          /\ ~workers[i].observerQueue[QueueId]

\* a Job holds the message: it waits in workingMessage or an instance runs it
Accepted(id) ==
    \/ \E i \in 1..Len(workers) : \E j \in 1..Len(workers[i].jobs) :
          HasId(workers[i].jobs[j].workingMessage, id)
    \/ \E k \in DOMAIN insts : insts[k].msg.id = id

\* C16: back-pressure recovers: a message refused because every Job of the
\* queue is saturated (observer paused, rebroadcast scheduled) is eventually
\* accepted by a Job, the messages in flight completing in the meantime.
BackPressureRecovers ==
    \A id \in 1..MaxBacklog : Refused(id) ~> Accepted(id)


\* C19: createWorker with the name of a Worker and createJob with the name
\* of a Job of the Worker fail with NameDuplicate and register nothing: the
\* Workers, their Jobs and their observers are unchanged; with a fresh name
\* the call registers one Worker, or one Job on that Worker.
DuplicateNameRegistersNothing ==
    [][/\ \A name \in WorkerNames :
              CreateWorker(name, PriorityOf(name)) =>
                  IF WorkerNamed(name)
                  THEN created' = "NameDuplicate" /\ UNCHANGED workers
                  ELSE /\ created' = "created"
                       /\ Len(workers') = Len(workers) + 1
       /\ \A wi \in 1..Len(workers), name \in JobNames :
              CreateJob(wi, name, NamedJobs(name)) =>
                  IF JobNamed(wi, name)
                  THEN created' = "NameDuplicate" /\ UNCHANGED workers
                  ELSE /\ created' = "created"
                       /\ Len(workers'[wi].jobs) = Len(workers[wi].jobs) + 1
                       /\ \A k \in 1..Len(workers) :
                              k # wi => workers'[k] = workers[k]]_vars

\* a duplicate createJob was refused on a Worker that has paused its
\* observation of the queue
DuplicateRefusedWhilePaused ==
    /\ created = "NameDuplicate"
    /\ \E i \in 1..Len(workers) :
          /\ Len(workers[i].jobs) > 0
          /\ QueueId \in DOMAIN workers[i].observerQueue
          /\ ~workers[i].observerQueue[QueueId]

\* C20: createQueue is idempotent by name, whatever the interleaving of the
\* calls: at most one Queue is registered under the name.
OneQueuePerName == Cardinality(queues) <= 1

\* a createQueue call with a registered name returns the registered Queue
\* and changes nothing (the part of C20 that holds)
RegisteredNameReturned ==
    [][(CreateQueueAgain /\ QueueId \in queues) =>
            /\ twin' = "returned"
            /\ UNCHANGED <<queueVars, diskVars, queues, workerVars>>]_vars


Sorted(seq) ==
    \A i \in 1..Len(seq) : \A j \in 1..Len(seq) :
        i < j => seq[i].createdAt <= seq[j].createdAt

\* C23: in every reachable state pipeline and fails are each sorted by
\* createdAt ascending, whatever sequence of AddMessage, Fail, GetFail,
\* deletions, restarts and Setup restores ran.
ListsSorted == Sorted(pipeline) /\ Sorted(fails)

\* after a restart Setup has restored two messages created at different
\* times
RestoredTwoAges ==
    /\ lives = 1
    /\ qphase = "ready"
    /\ Len(pipeline) = 2
    /\ pipeline[1].createdAt < pipeline[2].createdAt

\* the envelopes addMessage has handed to the Dispatcher, in that order
AddSent ==
    LET FromAdd(e) == e.origin = "addMessage"
        es == SelectSeq(sent, FromAdd)
    IN [i \in 1..Len(es) |-> es[i].env]

\* C22: the envelopes of a queue reach Dispatcher.listen in the order in
\* which their messages were appended, the createdAt order of the pipeline,
\* also when addMessage calls overlap while their payload writes are pending.
BroadcastInAppendOrder == Sorted(AddSent)


\* the failedCount of a message held in the lists p and f
CountIn(p, f, id) ==
    IF HasId(p, id) THEN Find(p, id).failedCount ELSE Find(f, id).failedCount

\* C24: the failedCount of a message id never decreases: not in a step of
\* the running process, and not over a restart, where the lists Setup
\* restores are those of the metadata snapshot on disk at termination.
FailedCountNeverDrops ==
    [][\A id \in InMemory :
          /\ id \in InMemory' =>
                CountIn(pipeline', fails', id) >= CountIn(pipeline, fails, id)
          /\ (Terminate /\ id \in Ids(metaFile.pipeline) \cup Ids(metaFile.fails)) =>
                CountIn(metaFile.pipeline, metaFile.fails, id)
                    >= CountIn(pipeline, fails, id)]_vars

\* what Setup restores is the snapshot on disk (the other half of C24's
\* statement over a restart)
SetupRestoresSnapshot ==
    [][\A via \in {"createQueue", "applyQueue"} :
          (SetupBegin(via) /\ metaFile.exists) =>
              /\ Len(metaFile.pipeline) > 0 => pipeline' = metaFile.pipeline
              /\ Len(metaFile.fails) > 0 => fails' = metaFile.fails]_vars


\* C26: failedCount is strictly monotonic across failures: every failed
\* attempt that a Job reports through Queue.fail on a message the Queue
\* holds leaves the message with a higher failedCount than before.
FailedAttemptRaisesCount ==
    [][\A id \in DOMAIN insts :
          (JobReject(id) \/ ChildReply(id, "error")) =>
              LET mid == insts[id].msg.id
              IN mid \in InMemory =>
                    /\ mid \in InMemory'
                    /\ CountIn(pipeline', fails', mid)
                           > CountIn(pipeline, fails, mid)]_vars


\* the Worker at position i has run on the envelope: one of its Jobs holds
\* the message, waiting or in an instance, or the Worker has paused its
\* observation and the envelope waits for its rebroadcast
RanOn(i, env) ==
    \/ \E j \in 1..Len(workers'[i].jobs) :
          \/ /\ HasId(workers'[i].jobs[j].workingMessage, env.id)
             /\ ~HasId(workers[i].jobs[j].workingMessage, env.id)
          \/ \E k \in DOMAIN insts' \ DOMAIN insts :
                /\ insts'[k].msg.id = env.id
                /\ insts'[k].worker = workers[i].name
                /\ insts'[k].job = workers[i].jobs[j].name
    \/ /\ ~ExistObserverQueue(workers'[i], env.queueId)
       /\ env \in rebroadcasts'

\* what one call of Dispatcher.listen with the envelope must leave behind,
\* pending being the rebroadcast timers pending when it is called
Routed(env, pending) ==
    LET observing == {i \in 1..Len(workers) :
                        ExistObserverQueue(workers[i], env.queueId)}
    IN /\ queues' = queues
       /\ Len(workers') = Len(workers)
       /\ \A i \in 1..Len(workers) : workers'[i].name = workers[i].name
       /\ IF observing = {}
          THEN /\ workers' = workers
               /\ insts' = insts
               /\ rebroadcasts' = pending \cup {env}
          ELSE LET first == CHOOSE i \in observing : \A k \in observing : i <= k
               IN /\ \A k \in 1..Len(workers) : k # first => workers'[k] = workers[k]
                  /\ \A k \in DOMAIN insts' \ DOMAIN insts :
                        insts'[k].worker = workers[first].name
                  /\ RanOn(first, env)

\* C27: each call of Listen runs at most one Worker, the first one in the
\* order of workers that observes the queue; when no Worker observes it,
\* exactly one rebroadcast of the same envelope is scheduled and nothing else
\* changes; Listen changes neither the list of Workers nor the queues.
ListenRunsFirstObserver ==
    [][/\ \A w \in writes :
              (AddMessageWritten(w) /\ QueueId \in queues) =>
                  Routed(AddMessageEnvelope(w), rebroadcasts)
       /\ \A env \in rebroadcasts :
              RebroadcastFire(env) => Routed(env, rebroadcasts \ {env})]_vars

\* the second Worker has taken the message after the first one paused its
\* observation of the queue
SecondWorkerServed ==
    /\ Len(workers) = 2
    /\ QueueId \in DOMAIN workers[1].observerQueue
    /\ ~workers[1].observerQueue[QueueId]
    /\ \E k \in DOMAIN insts : insts[k].worker = workers[2].name


\* among the Jobs of the Worker that Worker.run may give a message of the
\* queue to, the first registered of those that hold the fewest messages
FirstLeastLoaded(w, q) ==
    LET valid == ValidJobs(w, q)
        cand == {valid[k] : k \in 1..Len(valid)}
        least == {j \in cand : \A k \in cand :
                     Len(w.jobs[j].workingMessage) <= Len(w.jobs[k].workingMessage)}
    IN CHOOSE j \in least : \A k \in least : j <= k

\* Job j of the Worker at position i has taken the envelope in this step
TookOn(i, j, env) ==
    \/ /\ HasId(workers'[i].jobs[j].workingMessage, env.id)
       /\ ~HasId(workers[i].jobs[j].workingMessage, env.id)
    \/ \E k \in DOMAIN insts' \ DOMAIN insts :
          /\ insts'[k].msg.id = env.id
          /\ insts'[k].worker = workers[i].name
          /\ insts'[k].job = workers[i].jobs[j].name

\* what Worker.run must leave behind when the Dispatcher hands the envelope
\* to the first observing Worker and a Job of it can take the message
GivenToLeastLoaded(env) ==
    LET observing == {i \in 1..Len(workers) :
                        ExistObserverQueue(workers[i], env.queueId)}
        first == CHOOSE i \in observing : \A k \in observing : i <= k
    IN (observing # {} /\ ValidJobs(workers[first], env.queueId) # <<>>) =>
          LET chosen == FirstLeastLoaded(workers[first], env.queueId)
          IN /\ TookOn(first, chosen, env)
             /\ \A j \in 1..Len(workers[first].jobs) :
                   j # chosen => ~TookOn(first, j, env)

\* C28: Run gives the envelope to exactly one Job: among the Jobs bound to
\* the queue with fewer than workingMessageCount waiting messages the one
\* with the fewest, and among several with the fewest the one registered
\* first.
RunPicksFirstLeastLoaded ==
    [][/\ \A w \in writes :
              (AddMessageWritten(w) /\ QueueId \in queues) =>
                  GivenToLeastLoaded(AddMessageEnvelope(w))
       /\ \A env \in rebroadcasts :
              RebroadcastFire(env) => GivenToLeastLoaded(env)]_vars


\* what Worker.run must leave behind when the Dispatcher hands the envelope
\* to the first observing Worker and none of its Jobs can take the message,
\* pending being the rebroadcast timers pending when it is called
TurnedAway(env, pending) ==
    LET observing == {i \in 1..Len(workers) :
                        ExistObserverQueue(workers[i], env.queueId)}
        first == CHOOSE i \in observing : \A k \in observing : i <= k
    IN (observing # {} /\ ValidJobs(workers[first], env.queueId) = <<>>) =>
          /\ env.queueId \in DOMAIN workers'[first].observerQueue
          /\ workers'[first].observerQueue[env.queueId] = FALSE
          /\ rebroadcasts' = pending \cup {env}
          /\ workers'[first].jobs = workers[first].jobs
          /\ \A k \in 1..Len(workers) : k # first => workers'[k] = workers[k]
          /\ insts' = insts
          /\ loops' = loops

\* C29: when Run finds no Job of the queue with fewer than
\* workingMessageCount waiting messages it sets the observer of the queue to
\* false, schedules exactly one rebroadcast of that envelope and leaves the
\* workingMessage and the instances of every Job unchanged.
SaturatedRunPauses ==
    [][/\ \A w \in writes :
              (AddMessageWritten(w) /\ QueueId \in queues) =>
                  TurnedAway(AddMessageEnvelope(w), rebroadcasts)
       /\ \A env \in rebroadcasts :
              RebroadcastFire(env) => TurnedAway(env, rebroadcasts \ {env})]_vars

\* a Worker has turned a message away while its Job ran one message and held
\* another one waiting
PausedWhileBusy ==
    /\ rebroadcasts # {}
    /\ \E i \in 1..Len(workers) :
          /\ QueueId \in DOMAIN workers[i].observerQueue
          /\ ~workers[i].observerQueue[QueueId]
          /\ \E j \in 1..Len(workers[i].jobs) :
                /\ Len(workers[i].jobs[j].workingMessage) > 0
                /\ Len(workers[i].jobs[j].instances) > 0


DownMessageUnpauses ==
    \A i \in 1..Len(workers) : \A j \in 1..Len(workers[i].jobs) :
        \A n \in 1..Len(workers[i].jobs[j].workingMessage) :
            LET msg == workers[i].jobs[j].workingMessage[n]
                after == DownMessageOn(WorkerSide, workers[i].name,
                                       workers[i].jobs[j].name, msg)
            IN /\ ~HasId(after.workers[i].jobs[j].workingMessage, msg.id)
               /\ Len(after.workers[i].jobs[j].workingMessage)
                      = Len(workers[i].jobs[j].workingMessage) - 1
               /\ after.workers[i].jobs[j].instances = workers[i].jobs[j].instances
               /\ after.workers[i].observerQueue[msg.queueId] = TRUE
               /\ after.insts = insts


\* C21: at each tick at which the cron predicate holds and the schedule job
\* has fewer instances than concurrency, exactly one instance is created and
\* tried, its callback receiving a message with a fresh id and a value equal
\* to sampleData; a tick at which instances.length = concurrency or the
\* predicate is false starts nothing.
TickStartsOneWithinConcurrency ==
    [][\A wi \in 1..Len(workers) : \A k \in 1..Len(workers[wi].scheduleJobs) :
          \A clock \in Clocks :
              ScheduleTick(wi, k, clock) =>
                  LET job == workers[wi].scheduleJobs[k]
                      n == Len(job.instances)
                      after == workers'[wi].scheduleJobs[k].instances
                  IN IF IsTimeToRun(job.pattern, clock) /\ n < job.concurrency
                     THEN /\ Len(after) = n + 1
                          /\ SubSeq(after, 1, n) = job.instances
                          /\ after[n + 1].tried = 1
                          /\ after[n + 1].st = "running"
                          /\ after[n + 1].handle.message.id \notin 0..nextId
                          /\ after[n + 1].handle.message.value = job.sampleData
                     ELSE (~IsTimeToRun(job.pattern, clock) \/ n = job.concurrency)
                              => UNCHANGED <<workers, nextInst, nextId>>]_vars


\* with a concurrency of at least 1 and an object as sampleData a tick does
\* what C21 says (the part of C21 that holds)
TickStartsOneForObjects ==
    [][\A wi \in 1..Len(workers) : \A k \in 1..Len(workers[wi].scheduleJobs) :
          \A clock \in Clocks :
              (/\ ScheduleTick(wi, k, clock)
               /\ workers[wi].scheduleJobs[k].concurrency > 0
               /\ workers[wi].scheduleJobs[k].sampleData.t = "object") =>
                  LET job == workers[wi].scheduleJobs[k]
                      n == Len(job.instances)
                      after == workers'[wi].scheduleJobs[k].instances
                  IN IF IsTimeToRun(job.pattern, clock) /\ n < job.concurrency
                     THEN /\ Len(after) = n + 1
                          /\ after[n + 1].tried = 1
                          /\ after[n + 1].handle.message.id \notin 0..nextId
                          /\ after[n + 1].handle.message.value = job.sampleData
                     ELSE UNCHANGED <<workers, nextInst, nextId>>]_vars


\* C31: Worker.downMessage is notified on the first Try of a message only:
\* a retry reuses the Job instance and does not call downMessage again, so
\* the step of a retry changes no workingMessage and no observerQueue: the
\* Workers are the same before and after it.
RetryLeavesWorkers ==
    [][\A id \in DOMAIN insts : RetryFire(id) => workers' = workers]_vars

\* a retry is due while the Worker has paused its observation of the queue
RetryDueWhilePaused ==
    \E id \in DOMAIN insts :
        /\ insts[id].st = "retryWait"
        /\ \E i \in 1..Len(workers) :
              /\ QueueId \in DOMAIN workers[i].observerQueue
              /\ ~workers[i].observerQueue[QueueId]

\* C32: for one message on one Job instance attempts never overlap and each
\* failed attempt schedules at most one retry, whatever the kind of the
\* callback: at any time the instance has at most one attempt in flight or
\* one retry timer pending, never both and never two of either.
AttemptsInTurn ==
    \A id \in DOMAIN insts :
        LET inst == insts[id]
            inFlight == IF inst.st = "running" THEN 1 ELSE inst.posts
            due == IF inst.st = "retryWait" THEN 1 ELSE inst.retries
        IN inFlight + due <= 1

\* the same, for the instances of a Job whose callback is a function
AttemptsInTurnInProcess ==
    \A id \in DOMAIN insts :
        JobOf(WorkerSide, insts[id]).callback = "function" =>
            /\ insts[id].posts = 0
            /\ insts[id].retries = 0
            /\ insts[id].st \in {"running", "retryWait"}

\* each failed attempt of a function callback arms one retry timer, and the
\* retry starts one attempt
InProcessRetriesOnce ==
    [][\A id \in DOMAIN insts :
          JobOf(WorkerSide, insts[id]).callback = "function" =>
              /\ JobReject(id) /\ id \in DOMAIN insts' =>
                    insts'[id].st = "retryWait" /\ ~insts'[id].timer
              /\ RetryFire(id) =>
                    /\ insts[id].st = "retryWait"
                    /\ insts'[id].st = "running"
                    /\ insts'[id].tried = insts[id].tried + 1]_vars

\* C33: Setup, restoring messages from a metadata file whose expire is
\* positive, arms for each restored message a deletion timer under the id of
\* the message, with the delay expire - (now - createdAt), at least 1: the
\* timer that will remove the message and its payload file by expiration.
RestoredArmedById ==
    [][\A via \in {"createQueue", "applyQueue"} :
          (SetupBegin(via) /\ metaFile.exists /\ metaFile.expire > 0) =>
              \A i \in 1..Len(setup'.restored) :
                  LET m == setup'.restored[i]
                  IN \E t \in timers' :
                        /\ t.key = IdKey(m.id)
                        /\ t.tracked
                        /\ t.delay = ExpireT(metaFile, m)]_vars

\* what Setup arms instead: timers held under positions of the restored
\* lists, each with the remaining time of a restored message, none under
\* the id of a message
SetupArmsByIndex ==
    [][\A via \in {"createQueue", "applyQueue"} :
          (SetupBegin(via) /\ metaFile.exists /\ metaFile.expire > 0) =>
              /\ \A t \in timers' \ timers :
                    /\ t.key.kind = "index"
                    /\ t.key.n < Len(setup'.restored)
                    /\ \E i \in 1..Len(setup'.restored) :
                          t.delay = ExpireT(metaFile, setup'.restored[i])
                    /\ t.delay >= 1
              /\ Len(setup'.restored) > 0 => timers' # {}]_vars

\* a timer armed by Setup fires and removes nothing
RestoredTimerRemovesNothing ==
    [][\A t \in timers :
          (t.key.kind = "index" /\ TimerFire(t)) =>
              UNCHANGED <<pipeline, fails, files>>]_vars

Quiescent ==
    /\ qphase = "ready"
    /\ writes = {}
    /\ timers = {}
    /\ metaTimer = 0

\* C40: every operation that changes pipeline or fails schedules a metadata
\* snapshot, so once the Queue is quiescent the pipeline and the fails
\* recorded in metaq.json equal the pipeline and the fails in memory.
QuiescentSnapshotIsMemory ==
    (Quiescent /\ metaFile.exists) =>
        /\ metaFile.pipeline = pipeline
        /\ metaFile.fails = fails

\* the operations that do schedule a snapshot: whenever AddMessage (landed
\* and broadcast), Fail or a deletion timer changes a list, a writer is
\* pending after the step
ChangeSchedulesSnapshot ==
    [][/\ \A w \in writes :
              (AddMessageWritten(w) /\ QueueId \in queues) => metaTimer' = 1
       /\ \A id \in MessageIds :
              (Fail(id) /\ <<pipeline', fails'>> # <<pipeline, fails>>) =>
                  metaTimer' = 1
       /\ \A t \in timers :
              (TimerFire(t) /\ <<pipeline', fails'>> # <<pipeline, fails>>) =>
                  metaTimer' = 1]_vars

\* GetFail changes fails and leaves the snapshot writer as it was
GetFailSchedulesSnapshot ==
    [][\A id \in MessageIds : GetFail(id) => metaTimer' = 1]_vars

\* after the step the envelope is with a Job (in its workingMessage, or
\* already taken from it by an instance the step started) or it has a
\* rebroadcast timer, which it did not have among the timers `pending`
InRouting(env, pending) ==
    \/ /\ env \notin rebroadcasts'
       /\ \/ \E i \in 1..Len(workers') : \E j \in 1..Len(workers'[i].jobs) :
                HasId(workers'[i].jobs[j].workingMessage, env.id)
          \/ \E k \in DOMAIN insts' \ DOMAIN insts : insts'[k].msg.id = env.id
    \/ /\ env \in rebroadcasts'
       /\ env \notin pending
       /\ \A i \in 1..Len(workers') : \A j \in 1..Len(workers'[i].jobs) :
             ~HasId(workers'[i].jobs[j].workingMessage, env.id)
       /\ \A k \in DOMAIN insts' \ DOMAIN insts : insts'[k].msg.id # env.id

\* every call of Queue.broadcast in the step leaves its envelope in routing:
\* the broadcast of addMessage, of reBroadCast during setup and of a
\* rebroadcast timer; and a rebroadcast timer goes only by firing
BroadcastsKept(registeredOnly) ==
    /\ \A w \in writes :
          AddMessageWritten(w) =>
              InRouting(AddMessageEnvelope(w), rebroadcasts)
    /\ (ReBroadCastStep /\ setup.arr[setup.idx].id \in DOMAIN files
           /\ (registeredOnly => QueueId \in queues)) =>
          LET m == setup.arr[setup.idx]
          IN InRouting(Envelope(m, Decrypt(files[m.id], m.type, options.secretKey)),
                       rebroadcasts)
    /\ \A env \in rebroadcasts :
          /\ RebroadcastFire(env) => InRouting(env, rebroadcasts \ {env})
          /\ (env \notin rebroadcasts' /\ lives' = lives) => RebroadcastFire(env)

\* C39: no broadcast envelope is lost in routing: from the moment a Queue
\* broadcasts an envelope until a Job appends it to workingMessage, the
\* envelope is being handled by Listen and Run or has exactly one pending
\* rebroadcast timer, never none and never more than one.
NoEnvelopeLost == [][BroadcastsKept(FALSE)]_vars

\* the same for the broadcasts of a Queue that the Dispatcher has registered
NoEnvelopeLostOnceRegistered == [][BroadcastsKept(TRUE)]_vars

\* the message waits in the workingMessage of a Job
Waiting(id) ==
    \E i \in 1..Len(workers) : \E j \in 1..Len(workers[i].jobs) :
        HasId(workers[i].jobs[j].workingMessage, id)

\* a Job instance has been handed the message
Started(id) == \E k \in DOMAIN insts : insts[k].msg.id = id

\* C36: every message appended to the workingMessage of a Job is eventually
\* started by a Job instance once a concurrency slot is free, even if no
\* further message is ever routed to the Job, every callback terminating.
WaitingIsStarted ==
    \A id \in 1..MaxBacklog : Waiting(id) ~> Started(id)

\* a message waits in workingMessage while the Job has no instance and no
\* loop of #normalJobRun is suspended
WaitsBesideIdleJob ==
    \E i \in 1..Len(workers) : \E j \in 1..Len(workers[i].jobs) :
        /\ Len(workers[i].jobs[j].workingMessage) > 0
        /\ Len(workers[i].jobs[j].instances) = 0
        /\ loops = {}

\* a waiting message is started only in a step that routes an envelope to
\* the Worker or in which a suspended loop of #normalJobRun goes on
StartedOnlyByRunOrLoop ==
    [][\A id \in 1..MaxBacklog :
          (Waiting(id) /\ ~Started(id) /\ Started(id)') =>
              \/ \E w \in writes : AddMessageWritten(w)
              \/ \E env \in rebroadcasts : RebroadcastFire(env)
              \/ loops # {} /\ Settle]_vars

\* the instance is in the instances of a Job: it holds a concurrency slot
InstanceHeld(k) ==
    \E i \in 1..Len(workers) : \E j \in 1..Len(workers[i].jobs) :
        \E n \in 1..Len(workers[i].jobs[j].instances) :
            workers[i].jobs[j].instances[n] = k

\* C38: every Job instance added to instances is eventually removed by
\* downInstance when its handling ends, by success, final failure, timeout,
\* invalid callback or the error or exit of the isolated runtime: no
\* concurrency slot is held for ever.
InstancesAreReleased ==
    \A k \in 1..MaxInsts : InstanceHeld(k) ~> ~InstanceHeld(k)

\* the endings after which downInstance is called: a callback that resolves,
\* a runtime that answers success, and a failure that spends the budget
SettledInstanceReleased ==
    [][\A id \in DOMAIN insts :
          LET inst == insts[id]
              last == inst.tried >= JobOf(WorkerSide, inst).retry + 1
          IN (\/ JobResolve(id)
              \/ ChildReply(id, "success")
              \/ last /\ (JobReject(id) \/ ChildReply(id, "error")))
                 => ~InstanceHeld(id)']_vars

\* the handling of a message has ended without downInstance: the callback
\* was invalid, or the runtime of the attempt ended, and the instance has
\* nothing pending
EndedAndHeld ==
    \E k \in DOMAIN insts :
        /\ InstanceHeld(k)
        /\ \/ insts[k].st = "threw"
           \/ ~insts[k].alive /\ insts[k].retries = 0

\* every instance the step starts takes a message that waited in the
\* workingMessage of its Job before the step or is the envelope the step
\* routes: a message that try has taken out of workingMessage is not started
\* again
StartsFrom(routed) ==
    \A k \in DOMAIN insts' \ DOMAIN insts :
        LET x == insts'[k].msg.id
        IN \/ HasId(JobOf(WorkerSide, insts'[k]).workingMessage, x)
           \/ x = routed

\* C37: a message accepted once by a Job is handed to try by at most one
\* Job instance, under any interleaving of the loops of #normalJobRun that
\* successive calls of run start while earlier loops are suspended on a
\* running callback.
StartedAtMostOnce ==
    [][/\ \A w \in writes : AddMessageWritten(w) => StartsFrom(w.msg.id)
       /\ \A env \in rebroadcasts : RebroadcastFire(env) => StartsFrom(env.id)
       /\ Settle => StartsFrom(EmptyId)]_vars

\* two instances hold the same message at once
HandledTwiceAtOnce ==
    \E k, n \in DOMAIN insts : k # n /\ insts[k].msg.id = insts[n].msg.id

\* the first tries of the step keep the order of workingMessage: when the
\* step starts an instance on a message that waited in workingMessage, or on
\* the envelope it routes, every message that waited in front of it has left
\* workingMessage too, an instance having taken it
StartsInOrder(routed) ==
    \A k \in DOMAIN insts' \ DOMAIN insts :
        LET x == insts'[k].msg.id
            wi == WorkerAt(WorkerSide, insts'[k].worker)
            ji == JobAt(workers[wi], insts'[k].job)
            before == workers[wi].jobs[ji].workingMessage
            after == workers'[wi].jobs[ji].workingMessage
            InFront(n) == IF HasId(before, x)
                          THEN \E p \in 1..Len(before) :
                                  before[p].id = x /\ n < p
                          ELSE TRUE
        IN (HasId(before, x) \/ x = routed) =>
               \A n \in 1..Len(before) :
                   (before[n].id # x /\ InFront(n)) => ~HasId(after, before[n].id)

\* C35: within a single Job messages are started (first try) in the order
\* in which run appended them to workingMessage: no message is started
\* before a message that the same Job accepted earlier and has not yet
\* started.
StartedInAppendOrder ==
    [][/\ \A w \in writes : AddMessageWritten(w) => StartsInOrder(w.msg.id)
       /\ \A env \in rebroadcasts : RebroadcastFire(env) => StartsInOrder(env.id)
       /\ Settle => StartsInOrder(EmptyId)]_vars

\* a loop of #normalJobRun that began with two waiting messages has started
\* the first, and the second still waits behind it
StartedAheadOfWaiting ==
    \E l \in loops :
        /\ Len(l.arr) >= 2
        /\ l.idx = 1
        /\ l.inst \in DOMAIN insts
        /\ insts[l.inst].msg.id = l.arr[1].id
        /\ HasId(JobOf(WorkerSide, insts[l.inst]).workingMessage, l.arr[2].id)
====
